---- MODULE Spec2Model ----
(***************************************************************************)
(* Verification model of the PDK compliance hooks (hooks/_utils.py and the *)
(* check_* entry points).  Values of the program are modelled as follows:  *)
(*   - a Python str that is searched with `in` / endswith is a sequence of *)
(*     one-character strings, so substring tests are computed;             *)
(*   - an ast node is a record with a "type" field named after the ast     *)
(*     class, and the fields of that class the code reads;                 *)
(*   - a CheckResult is a record of its two lists.                         *)
(***************************************************************************)
EXTENDS Integers, Sequences, FiniteSets, TLC

VARIABLES
    result,     \* the CheckResult under test (Spec)
    stdout,     \* what the report() calls printed, one entry per call (Spec)
    returned,   \* the exit codes the report() calls returned (Spec)
    cell_src,   \* how the walked cell file was written (SpecFinder)
    finder,     \* the RawLayerTupleFinder traversal (SpecFinder)
    matcher,    \* a cell function, its file's aliases and the matchers' verdict (SpecMatchers)
    pdk_tree,   \* the parsed package file given to PdkCallChecker (SpecPdkCall)
    checker,    \* the PdkCallChecker traversal (SpecPdkCall)
    fs,         \* the repository the hooks run in: its files and directories (SpecHooks, SpecDiscovery)
    run,        \* the last run of a hook's main(): its CheckResult, output and exit code (SpecHooks)
    discovery,  \* the last call of a discovery function of _utils.py and what it returned (SpecDiscovery)
    sync        \* push_compliance.main(): its position, its arguments and the commands it ran (SpecSync)

vars == <<result, stdout, returned, cell_src, finder, matcher, pdk_tree, checker, fs, run, discovery, sync>>

\* The variables a specification leaves alone.
NotResult == <<cell_src, finder, matcher, pdk_tree, checker, fs, run, discovery, sync>>
NotFinder == <<result, stdout, returned, matcher, pdk_tree, checker, fs, run, discovery, sync>>
NotMatcher == <<result, stdout, returned, cell_src, finder, pdk_tree, checker, fs, run, discovery, sync>>
NotPdkCall == <<result, stdout, returned, cell_src, finder, matcher, fs, run, discovery, sync>>
NotHooks == <<result, stdout, returned, cell_src, finder, matcher, pdk_tree, checker, discovery, sync>>
NotDiscovery == <<result, stdout, returned, cell_src, finder, matcher, pdk_tree, checker, run, sync>>
NotSync == <<result, stdout, returned, cell_src, finder, matcher, pdk_tree, checker, fs, run, discovery>>

Null == [type |-> "None"]

\* ------------------------------------------------------------------------
\* Generic helpers
\* ------------------------------------------------------------------------

RECURSIVE SeqCount(_, _)
\* Number of occurrences of x in the sequence s.
SeqCount(s, x) ==
    IF s = <<>> THEN 0
    ELSE (IF Head(s) = x THEN 1 ELSE 0) + SeqCount(Tail(s), x)

Range(s) == {s[i] : i \in DOMAIN s}

\* ------------------------------------------------------------------------
\* CheckResult (hooks/_utils.py)
\* ------------------------------------------------------------------------

\* Bound: total number of findings recorded in one run of Spec.
MaxFindings == 4
\* Bound: number of report() calls in one run of Spec.
MaxReports == 2

Msgs == {"m1", "m2"}

\* CheckResult.__init__
NewCheckResult(hook_name) ==
    [hook_name |-> hook_name, errors |-> <<>>, warnings |-> <<>>]

\* CheckResult.error
error(r, msg) == [r EXCEPT !.errors = Append(@, msg)]

\* CheckResult.warn
warn(r, msg) == [r EXCEPT !.warnings = Append(@, msg)]

\* CheckResult.has_errors
has_errors(r) == r.errors # <<>>

\* The lines report() would print with the warning section first.
report_lines_warnings_first(r) ==
    IF r.errors = <<>> /\ r.warnings = <<>> THEN <<>>
    ELSE
        (IF r.warnings # <<>>
         THEN <<[kind |-> "warnings_heading"]>>
              \o [i \in 1..Len(r.warnings) |-> [kind |-> "warning", msg |-> r.warnings[i]]]
         ELSE <<>>)
        \o
        (IF r.errors # <<>>
         THEN <<[kind |-> "blank"], [kind |-> "rule"],
                [kind |-> "header", hook |-> r.hook_name, n |-> Len(r.errors)],
                [kind |-> "rule"]>>
              \o [i \in 1..Len(r.errors) |-> [kind |-> "error", msg |-> r.errors[i]]]
         ELSE <<>>)
        \o <<[kind |-> "blank"]>>

\* The lines report() prints, in order.  print(f"\n{'=' * 60}") prints an
\* empty line and then the rule.
report_lines(r) ==
    IF r.errors = <<>> /\ r.warnings = <<>> THEN <<>>
    ELSE
        (IF r.errors # <<>>
         THEN <<[kind |-> "blank"], [kind |-> "rule"],
                [kind |-> "header", hook |-> r.hook_name, n |-> Len(r.errors)],
                [kind |-> "rule"]>>
              \o [i \in 1..Len(r.errors) |-> [kind |-> "error", msg |-> r.errors[i]]]
         ELSE <<>>)
        \o
        (IF r.warnings # <<>>
         THEN (IF r.errors = <<>> THEN <<[kind |-> "blank"]>> ELSE <<>>)
              \o <<[kind |-> "warnings_heading"]>>
              \o [i \in 1..Len(r.warnings) |-> [kind |-> "warning", msg |-> r.warnings[i]]]
         ELSE <<>>)
        \o <<[kind |-> "blank"]>>

\* The exit code report() returns with has_errors mistaken for "has findings".
report_code_any_finding(r) ==
    IF r.errors = <<>> /\ r.warnings = <<>> THEN 0
    ELSE IF r.errors # <<>> \/ r.warnings # <<>> THEN 1 ELSE 0

\* The exit code report() returns.
report_code(r) ==
    IF r.errors = <<>> /\ r.warnings = <<>> THEN 0
    ELSE IF r.errors # <<>> THEN 1 ELSE 0

\* ------------------------------------------------------------------------
\* Strings (a str is the sequence of its characters)
\* ------------------------------------------------------------------------

S_layer == <<"l", "a", "y", "e", "r">>
S_layers == <<"l", "a", "y", "e", "r", "s">>
S_layer_slab == <<"l", "a", "y", "e", "r", "_", "s", "l", "a", "b">>
S_layer_pin == <<"l", "a", "y", "e", "r", "_", "p", "i", "n">>
S_layer_label == <<"l", "a", "y", "e", "r", "_", "l", "a", "b", "e", "l">>
S_layer_heater == <<"l", "a", "y", "e", "r", "_", "h", "e", "a", "t", "e", "r">>
S_layer_trench == <<"l", "a", "y", "e", "r", "_", "t", "r", "e", "n", "c", "h">>
S_layer_port == <<"l", "a", "y", "e", "r", "_", "p", "o", "r", "t">>
S_layer_metal == <<"l", "a", "y", "e", "r", "_", "m", "e", "t", "a", "l">>
S_layer_via == <<"l", "a", "y", "e", "r", "_", "v", "i", "a">>
S_layers_via_stack1 == <<"l", "a", "y", "e", "r", "s", "_", "v", "i", "a", "_", "s", "t", "a", "c", "k", "1">>
S_layers_via_stack2 == <<"l", "a", "y", "e", "r", "s", "_", "v", "i", "a", "_", "s", "t", "a", "c", "k", "2">>
S_bbox_layers == <<"b", "b", "o", "x", "_", "l", "a", "y", "e", "r", "s">>
S_cladding_layers == <<"c", "l", "a", "d", "d", "i", "n", "g", "_", "l", "a", "y", "e", "r", "s">>
S_label_layer == <<"l", "a", "b", "e", "l", "_", "l", "a", "y", "e", "r">>
S__layer == <<"_", "l", "a", "y", "e", "r">>
S__layers == <<"_", "l", "a", "y", "e", "r", "s">>
S_size == <<"s", "i", "z", "e">>
S_length == <<"l", "e", "n", "g", "t", "h">>
S_port_layer == <<"p", "o", "r", "t", "_", "l", "a", "y", "e", "r">>
S_via_layers == <<"v", "i", "a", "_", "l", "a", "y", "e", "r", "s">>
S_make == <<"m", "a", "k", "e">>
S_ref == <<"r", "e", "f">>
S_f == <<"f">>
S_x == <<"x">>
S_gdsfactory == <<"g", "d", "s", "f", "a", "c", "t", "o", "r", "y">>
S_gf == <<"g", "f">>
S_fw == <<"f", "w">>
S_cell == <<"c", "e", "l", "l">>
S__cell == <<"_", "c", "e", "l", "l">>
S_c == <<"c">>
S_Component == <<"C", "o", "m", "p", "o", "n", "e", "n", "t">>
S_C == <<"C">>
S_MyComponent == <<"M", "y", "C", "o", "m", "p", "o", "n", "e", "n", "t">>
S_gdsfactory_dot_typings == <<"g", "d", "s", "f", "a", "c", "t", "o", "r", "y", ".", "t", "y", "p", "i", "n", "g", "s">>
S_numpy == <<"n", "u", "m", "p", "y">>
S_other == <<"o", "t", "h", "e", "r">>
S_thing == <<"t", "h", "i", "n", "g">>
S_gdsfactory_cell == <<"g", "d", "s", "f", "a", "c", "t", "o", "r", "y", "_", "c", "e", "l", "l">>
S_wrap == <<"w", "r", "a", "p">>
S_name == <<"n", "a", "m", "e">>
S_cells == <<"c", "e", "l", "l", "s">>
S_cross_sections == <<"c", "r", "o", "s", "s", "_", "s", "e", "c", "t", "i", "o", "n", "s">>
S_layer_views == <<"l", "a", "y", "e", "r", "_", "v", "i", "e", "w", "s">>
S_layer_stack == <<"l", "a", "y", "e", "r", "_", "s", "t", "a", "c", "k">>
S_routing_strategies == <<"r", "o", "u", "t", "i", "n", "g", "_", "s", "t", "r", "a", "t", "e", "g", "i", "e", "s">>
S_Pdk == <<"P", "d", "k">>
S_get_cells == <<"g", "e", "t", "_", "c", "e", "l", "l", "s">>
S__cells == <<"_", "c", "e", "l", "l", "s">>
S_P == <<"P">>
S_make_Pdk_cells == <<"m", "a", "k", "e", "_", "P", "d", "k", "_", "c", "e", "l", "l", "s">>
S_dot == <<".">>
S_star == <<"*">>
S_empty == <<>>
S_pkg == <<"p", "k", "g">>
S_my_pdk == <<"m", "y", "_", "p", "d", "k">>
S_My_dash_Pdk == <<"M", "y", "-", "P", "d", "k">>
S_pkg_star == <<"p", "k", "g", "*">>
S_pkg_dot_cells == <<"p", "k", "g", ".", "c", "e", "l", "l", "s">>
S_tests == <<"t", "e", "s", "t", "s">>
S_docs == <<"d", "o", "c", "s">>
S_notebooks == <<"n", "o", "t", "e", "b", "o", "o", "k", "s">>
S_dot_git == <<".", "g", "i", "t">>
S_dot_github == <<".", "g", "i", "t", "h", "u", "b">>
S_actions == <<"a", "c", "t", "i", "o", "n", "s">>
S_hooks == <<"h", "o", "o", "k", "s">>
S_scripts == <<"s", "c", "r", "i", "p", "t", "s">>
S_init_py == <<"_", "_", "i", "n", "i", "t", "_", "_", ".", "p", "y">>
S_tech_py == <<"t", "e", "c", "h", ".", "p", "y">>
S_layers_py == <<"l", "a", "y", "e", "r", "s", ".", "p", "y">>
S_config_py == <<"c", "o", "n", "f", "i", "g", ".", "p", "y">>
S_cells_py == <<"c", "e", "l", "l", "s", ".", "p", "y">>
S_models == <<"m", "o", "d", "e", "l", "s">>
S_models_py == <<"m", "o", "d", "e", "l", "s", ".", "p", "y">>
S_pdk == <<"p", "d", "k">>
S_pdk_py == <<"p", "d", "k", ".", "p", "y">>
S_layers_yaml == <<"l", "a", "y", "e", "r", "s", ".", "y", "a", "m", "l">>
S_layers_yml == <<"l", "a", "y", "e", "r", "s", ".", "y", "m", "l">>
S_test_pdk_py == <<"t", "e", "s", "t", "_", "p", "d", "k", ".", "p", "y">>
S_test_ == <<"t", "e", "s", "t", "_">>
S_dot_py == <<".", "p", "y">>
S_underscore == <<"_">>
S_dash == <<"-">>
S_dunder_name == <<"_", "_", "n", "a", "m", "e", "_", "_">>
S_dunder_main == <<"_", "_", "m", "a", "i", "n", "_", "_">>
S_dunder_version == <<"_", "_", "v", "e", "r", "s", "i", "o", "n", "_", "_">>
S_dunder_all == <<"_", "_", "a", "l", "l", "_", "_">>
S_LAYER == <<"L", "A", "Y", "E", "R">>
S_LAYER_STACK == <<"L", "A", "Y", "E", "R", "_", "S", "T", "A", "C", "K">>
S_LAYER_VIEWS == <<"L", "A", "Y", "E", "R", "_", "V", "I", "E", "W", "S">>
S_LayerMap == <<"L", "a", "y", "e", "r", "M", "a", "p">>
S_WG == <<"W", "G">>
S_SLAB == <<"S", "L", "A", "B">>
S_M1 == <<"M", "1">>
S_self == <<"s", "e", "l", "f">>
S_Args_colon == <<"A", "r", "g", "s", ":">>
S_a == <<"a">>
S_b == <<"b">>
S_g == <<"g">>
S_h == <<"h">>
S__helper == <<"_", "h", "e", "l", "p", "e", "r">>
S_version_1 == <<"1", ".", "0">>
S__internal == <<"_", "i", "n", "t", "e", "r", "n", "a", "l">>
S_dot_hidden == <<".", "h", "i", "d", "d", "e", "n">>

\* str.endswith(suffix)
endswith(s, suffix) ==
    /\ Len(suffix) <= Len(s)
    /\ SubSeq(s, Len(s) - Len(suffix) + 1, Len(s)) = suffix

\* `sub in s` for two str values
contains(s, sub) ==
    \E i \in 0..(Len(s) - Len(sub)) : SubSeq(s, i + 1, i + Len(sub)) = sub

\* The characters in code point order, which is the order of str
\* comparison.
CharOrder ==
    <<"-", ".", "0", "1", "2", "3", "4", "5", "6", "7", "8", "9",
      "A", "B", "C", "D", "E", "F", "G", "H", "I", "J", "K", "L", "M",
      "N", "O", "P", "Q", "R", "S", "T", "U", "V", "W", "X", "Y", "Z", "_",
      "a", "b", "c", "d", "e", "f", "g", "h", "i", "j", "k", "l", "m",
      "n", "o", "p", "q", "r", "s", "t", "u", "v", "w", "x", "y", "z">>

ord(ch) == CHOOSE i \in DOMAIN CharOrder : CharOrder[i] = ch

RECURSIVE StrLess(_, _)
\* a < b for two str values
StrLess(a, b) ==
    IF b = <<>> THEN FALSE
    ELSE IF a = <<>> THEN TRUE
    ELSE IF Head(a) = Head(b) THEN StrLess(Tail(a), Tail(b))
    ELSE ord(Head(a)) < ord(Head(b))

RECURSIVE sorted(_)
\* sorted(S) for a set of str
sorted(S) ==
    IF S = {} THEN <<>>
    ELSE LET m == CHOOSE x \in S : \A y \in S \ {x} : StrLess(x, y)
         IN <<m>> \o sorted(S \ {m})

\* An optional str (str | None): the empty sequence is None, <<s>> is s.
None == <<>>
Some(s) == <<s>>

\* ------------------------------------------------------------------------
\* ast nodes
\* ------------------------------------------------------------------------

Module(body) == [type |-> "Module", body |-> body]
Expr(value) == [type |-> "Expr", value |-> value]
\* args.defaults and args.kw_defaults are kept as two fields of the
\* definition; a kw_defaults entry of a keyword-only parameter without
\* default is Null.
\* args is the list of the positional parameter names (args.args);
\* returns is the return annotation or Null.
FunctionDefNode(name, decorator_list, args, defaults, kw_defaults, returns, body) ==
    [type |-> "FunctionDef", name |-> name, decorator_list |-> decorator_list,
     args |-> args, defaults |-> defaults, kw_defaults |-> kw_defaults,
     returns |-> returns, body |-> body]
\* def f(...): with the given decorators, defaults and body
FunctionDef(decorator_list, defaults, kw_defaults, body) ==
    FunctionDefNode(S_f, decorator_list, <<>>, defaults, kw_defaults, Null, body)
AsyncFunctionDef(decorator_list, defaults, kw_defaults, body) ==
    [FunctionDef(decorator_list, defaults, kw_defaults, body)
        EXCEPT !.type = "AsyncFunctionDef"]
\* class <name>(<bases>): <body>
ClassDefNamed(name, bases, body) ==
    [type |-> "ClassDef", name |-> name, bases |-> bases, body |-> body]
ClassDef(bases, body) == ClassDefNamed(S_C, bases, body)
CallAt(func, args, keywords, lineno) ==
    [type |-> "Call", func |-> func, args |-> args, keywords |-> keywords,
     lineno |-> lineno]
Call(func, args, keywords) == CallAt(func, args, keywords, 1)
Assign(targets, value) == [type |-> "Assign", targets |-> targets, value |-> value]
\* target: annotation = value
AnnAssign(target, annotation, value) ==
    [type |-> "AnnAssign", target |-> target, annotation |-> annotation,
     value |-> value]
\* if test: body
If(test, body) == [type |-> "If", test |-> test, body |-> body]
\* left <ops[1]> comparators[1] ...; an operator is the name of its class
Compare(left, ops, comparators) ==
    [type |-> "Compare", left |-> left, ops |-> ops, comparators |-> comparators]
\* ast.keyword: arg is None for **kwargs unpacking
keyword(arg, value) == [type |-> "keyword", arg |-> arg, value |-> value]
Attribute(value, attr) == [type |-> "Attribute", value |-> value, attr |-> attr]
Name(id) == [type |-> "Name", id |-> id]
Tuple(elts, lineno) == [type |-> "Tuple", elts |-> elts, lineno |-> lineno]
\* ast.Constant; vtype is the Python type of its value
IntConst(n) == [type |-> "Constant", vtype |-> "int", value |-> n]
StrConst(s) == [type |-> "Constant", vtype |-> "str", text |-> s]
\* ast.alias of an import statement; asname is None without "as"
alias(name, asname) == [type |-> "alias", name |-> name, asname |-> asname]
Import(names) == [type |-> "Import", names |-> names]
\* module is None for "from . import x"; level is the number of leading
\* dots
ImportFromLevel(module, names, level) ==
    [type |-> "ImportFrom", module |-> module, names |-> names, level |-> level]
ImportFrom(module, names) == ImportFromLevel(module, names, 0)
\* The node with its lineno attribute set
AtLine(node, lineno) ==
    [a \in DOMAIN node \cup {"lineno"} |-> IF a = "lineno" THEN lineno ELSE node[a]]

NotNone(seq) == SelectSeq(seq, LAMBDA d : d # Null)

\* ast.iter_child_nodes(node), the order generic_visit() follows: the
\* fields of the node class in declaration order.
iter_child_nodes(node) ==
    CASE node.type = "Module" -> node.body
      [] node.type = "Expr" -> <<node.value>>
      [] node.type \in {"FunctionDef", "AsyncFunctionDef"} ->
            NotNone(node.kw_defaults) \o node.defaults \o node.body
            \o node.decorator_list \o NotNone(<<node.returns>>)
      [] node.type = "ClassDef" -> node.bases \o node.body
      [] node.type = "Call" -> <<node.func>> \o node.args \o node.keywords
      [] node.type = "keyword" -> <<node.value>>
      [] node.type = "Assign" -> node.targets \o <<node.value>>
      [] node.type = "AnnAssign" ->
            <<node.target, node.annotation>> \o NotNone(<<node.value>>)
      [] node.type = "If" -> <<node.test>> \o node.body
      [] node.type = "Compare" -> <<node.left>> \o node.comparators
      [] node.type \in {"Import", "ImportFrom"} -> node.names
      [] node.type = "Attribute" -> <<node.value>>
      [] node.type = "Tuple" -> node.elts
      [] OTHER -> <<>>

\* ------------------------------------------------------------------------
\* RawLayerTupleFinder (hooks/check_no_raw_layers.py)
\* ------------------------------------------------------------------------

_LAYER_KWARG_NAMES ==
    {S_layer, S_layers, S_layer_slab, S_layer_pin, S_layer_label,
     S_layer_heater, S_layer_trench, S_layer_port, S_layer_metal,
     S_layer_via, S_layers_via_stack1, S_layers_via_stack2, S_bbox_layers,
     S_cladding_layers, S_label_layer}

\* _is_layer_context without the two suffix tests.
_is_layer_context_names_only(kwarg_name) ==
    IF kwarg_name = None THEN TRUE
    ELSE kwarg_name[1] \in _LAYER_KWARG_NAMES

\* RawLayerTupleFinder._is_layer_context, reading self._kwarg_name
_is_layer_context(kwarg_name) ==
    IF kwarg_name = None THEN TRUE
    ELSE LET kwarg == kwarg_name[1] IN
         \/ kwarg \in _LAYER_KWARG_NAMES
         \/ endswith(kwarg, S__layer)
         \/ endswith(kwarg, S__layers)

\* RawLayerTupleFinder._is_layer_tuple
_is_layer_tuple(node) ==
    IF Len(node.elts) # 2 THEN FALSE
    ELSE \A i \in 1..Len(node.elts) :
            node.elts[i].type = "Constant" /\ node.elts[i].vtype = "int"

\* The message of the finding: the file, the line and the two values.
RawLayerMsg(filepath, node) ==
    [kind |-> "raw layer tuple", path |-> filepath, lineno |-> node.lineno,
     a |-> node.elts[1].value, b |-> node.elts[2].value]

\* The interpreter's pending work while finder.visit(tree) runs: a stack of
\* tasks, the next one first.  "visit" is a pending self.visit(node);
\* the other tasks are the statements that follow a visit in the method
\* that made it.
VisitTask(node) == [op |-> "visit", node |-> node]
VisitAll(nodes) == [i \in 1..Len(nodes) |-> VisitTask(nodes[i])]

\* RawLayerTupleFinder.__init__ followed by the call finder.visit(tree)
NewFinder(filepath, res, tree) ==
    [filepath |-> filepath, result |-> res, in_default |-> FALSE,
     in_class_body |-> FALSE, kwarg_name |-> None,
     stack |-> <<VisitTask(tree)>>]

\* visit_FunctionDef up to its first self.visit
visit_FunctionDef(f, node, rest) ==
    [f EXCEPT !.in_default = TRUE,
              !.stack = VisitAll(node.defaults \o NotNone(node.kw_defaults))
                        \o <<[op |-> "end_defaults"]>>
                        \o VisitAll(node.body) \o rest]

\* visit_ClassDef that does not put the flag back after generic_visit.
visit_ClassDef_no_restore(f, node, rest) ==
    [f EXCEPT !.in_class_body = TRUE,
              !.stack = VisitAll(iter_child_nodes(node)) \o rest]

\* visit_ClassDef up to generic_visit; the assignment after it is the
\* "restore_class" task.
visit_ClassDef(f, node, rest) ==
    [f EXCEPT !.in_class_body = TRUE,
              !.stack = VisitAll(iter_child_nodes(node))
                        \o <<[op |-> "restore_class", old |-> f.in_class_body]>>
                        \o rest]

\* visit_Call: the positional arguments, then one iteration per keyword
visit_Call(f, node, rest) ==
    [f EXCEPT !.stack = VisitAll(node.args)
                        \o [i \in 1..Len(node.keywords) |->
                               [op |-> "keyword", kw |-> node.keywords[i]]]
                        \o rest]

\* visit_Call's keyword iteration without `self._kwarg_name = old`
visit_keyword_no_restore(f, kw, rest) ==
    [f EXCEPT !.kwarg_name = kw.arg,
              !.stack = <<VisitTask(kw.value)>> \o rest]

\* One iteration of the keyword loop of visit_Call, up to self.visit
visit_keyword(f, kw, rest) ==
    [f EXCEPT !.kwarg_name = kw.arg,
              !.stack = <<VisitTask(kw.value),
                          [op |-> "restore_kwarg", old |-> f.kwarg_name]>>
                        \o rest]

\* visit_Tuple
visit_Tuple(f, node, rest) ==
    LET next == VisitAll(iter_child_nodes(node)) \o rest IN
    IF f.in_default \/ f.in_class_body
    THEN [f EXCEPT !.stack = next]
    ELSE IF _is_layer_tuple(node) /\ _is_layer_context(f.kwarg_name)
         THEN [f EXCEPT !.result = error(@, RawLayerMsg(f.filepath, node)),
                        !.stack = next]
         ELSE [f EXCEPT !.stack = next]

\* NodeVisitor.visit: dispatch on the node class, generic_visit otherwise
visit(f, node, rest) ==
    CASE node.type = "FunctionDef" -> visit_FunctionDef(f, node, rest)
      [] node.type = "ClassDef" -> visit_ClassDef(f, node, rest)
      [] node.type = "Call" -> visit_Call(f, node, rest)
      [] node.type = "Tuple" -> visit_Tuple(f, node, rest)
      [] OTHER -> [f EXCEPT !.stack = VisitAll(iter_child_nodes(node)) \o rest]

\* One step of the traversal: run the first pending task.
FinderStep(f) ==
    LET task == Head(f.stack)
        rest == Tail(f.stack)
    IN CASE task.op = "visit" -> visit(f, task.node, rest)
         [] task.op = "keyword" -> visit_keyword(f, task.kw, rest)
         [] task.op = "end_defaults" ->
                [f EXCEPT !.in_default = FALSE, !.stack = rest]
         [] task.op = "restore_class" ->
                [f EXCEPT !.in_class_body = task.old, !.stack = rest]
         [] task.op = "restore_kwarg" ->
                [f EXCEPT !.kwarg_name = task.old, !.stack = rest]

RECURSIVE FinderRun(_)
\* finder.visit(tree) run to its end
FinderRun(f) == IF f.stack = <<>> THEN f ELSE FinderRun(FinderStep(f))

\* ------------------------------------------------------------------------
\* Import aliases, decorator and return-type matchers (hooks/_utils.py)
\* ------------------------------------------------------------------------

\* A dict[str, str] is a function from its keys.
EmptyDict == [k \in {} |-> S_empty]
\* d[k] = v
DictSet(d, k, v) == [x \in DOMAIN d \cup {k} |-> IF x = k THEN v ELSE d[x]]
\* d.get(k, default)
DictGet(d, k, default) == IF k \in DOMAIN d THEN d[k] ELSE default

\* `alias.asname or alias.name`
LocalName(a) == IF a.asname # None THEN a.asname[1] ELSE a.name

RECURSIVE ImportNames(_, _)
\* The inner loop of get_import_aliases over the names of an `import`
ImportNames(aliases, names) ==
    IF names = <<>> THEN aliases
    ELSE ImportNames(DictSet(aliases, LocalName(Head(names)), Head(names).name),
                     Tail(names))

RECURSIVE ImportFromNames(_, _, _)
\* The inner loop of get_import_aliases over the names of a `from ... import`
ImportFromNames(aliases, module, names) ==
    IF names = <<>> THEN aliases
    ELSE LET a == Head(names) IN
         IF a.name = S_star THEN ImportFromNames(aliases, module, Tail(names))
         ELSE ImportFromNames(
                DictSet(aliases, LocalName(a),
                        IF module # S_empty THEN module \o S_dot \o a.name ELSE a.name),
                module, Tail(names))

RECURSIVE ImportAliasesOf(_, _)
\* The loop of get_import_aliases over the child nodes of the tree
ImportAliasesOf(aliases, nodes) ==
    IF nodes = <<>> THEN aliases
    ELSE LET node == Head(nodes) IN
         CASE node.type = "Import" ->
                ImportAliasesOf(ImportNames(aliases, node.names), Tail(nodes))
           [] node.type = "ImportFrom" ->
                ImportAliasesOf(
                    ImportFromNames(aliases,
                                    IF node.module = None THEN S_empty ELSE node.module[1],
                                    node.names),
                    Tail(nodes))
           [] OTHER -> ImportAliasesOf(aliases, Tail(nodes))

\* get_import_aliases(tree)
get_import_aliases(tree) == ImportAliasesOf(EmptyDict, iter_child_nodes(tree))

\* is_gf_cell_decorator that does not unwrap a call-style decorator.
is_gf_cell_decorator_no_unwrap(decorator, aliases) ==
    LET node == decorator IN
    IF node.type = "Attribute"
    THEN /\ node.attr = S_cell
         /\ node.value.type = "Name"
         /\ LET resolved == DictGet(aliases, node.value.id, node.value.id) IN
            contains(resolved, S_gdsfactory) \/ node.value.id = S_gf
    ELSE IF node.type = "Name"
    THEN LET resolved == DictGet(aliases, node.id, S_empty) IN
         \/ contains(resolved, S_gdsfactory) /\ contains(resolved, S_cell)
         \/ node.id \in {S_cell, S__cell}
    ELSE FALSE

\* is_gf_cell_decorator(decorator, aliases)
is_gf_cell_decorator(decorator, aliases) ==
    LET node == IF decorator.type = "Call" THEN decorator.func ELSE decorator IN
    IF node.type = "Attribute"
    THEN /\ node.attr = S_cell
         /\ node.value.type = "Name"
         /\ LET resolved == DictGet(aliases, node.value.id, node.value.id) IN
            contains(resolved, S_gdsfactory) \/ node.value.id = S_gf
    ELSE IF node.type = "Name"
    THEN LET resolved == DictGet(aliases, node.id, S_empty) IN
         \/ contains(resolved, S_gdsfactory) /\ contains(resolved, S_cell)
         \/ node.id \in {S_cell, S__cell}
    ELSE FALSE

\* returns_component(func, aliases)
returns_component(func, aliases) ==
    LET ann == func.returns IN
    IF ann = Null THEN FALSE
    ELSE IF ann.type = "Attribute"
    THEN /\ ann.attr = S_Component
         /\ ann.value.type = "Name"
         /\ LET resolved == DictGet(aliases, ann.value.id, ann.value.id) IN
            contains(resolved, S_gdsfactory) \/ ann.value.id = S_gf
    ELSE IF ann.type = "Name"
    THEN LET resolved == DictGet(aliases, ann.id, S_empty) IN
         contains(ann.id, S_Component) /\ contains(resolved, S_gdsfactory)
    ELSE IF ann.type = "Constant" /\ ann.vtype = "str"
    THEN contains(ann.text, S_Component)
    ELSE FALSE

\* ------------------------------------------------------------------------
\* PdkCallChecker (hooks/check_pdk_object.py)
\* ------------------------------------------------------------------------

REQUIRED_KWARGS == {S_name, S_cells, S_layers, S_cross_sections}
RECOMMENDED_KWARGS == {S_layer_views, S_layer_stack, S_routing_strategies}

\* The test of _find_get_cells_vars and _is_get_cells_value on a callee:
\* the name get_cells or an attribute access .get_cells
IsGetCellsFunc(func) ==
    \/ func.type = "Name" /\ func.id = S_get_cells
    \/ func.type = "Attribute" /\ func.attr = S_get_cells

\* _find_get_cells_vars(tree)
_find_get_cells_vars(tree) ==
    LET nodes == iter_child_nodes(tree) IN
    {target.id : target \in
        UNION {{n.targets[j] : j \in {j \in DOMAIN n.targets : n.targets[j].type = "Name"}} :
               n \in {nodes[i] : i \in {i \in DOMAIN nodes :
                                           /\ nodes[i].type = "Assign"
                                           /\ nodes[i].value.type = "Call"
                                           /\ IsGetCellsFunc(nodes[i].value.func)}}}}

\* PdkCallChecker._is_pdk_constructor
_is_pdk_constructor(func_node, aliases) ==
    IF func_node.type = "Name"
    THEN LET resolved == DictGet(aliases, func_node.id, func_node.id) IN
         func_node.id = S_Pdk \/ contains(resolved, S_Pdk)
    ELSE IF func_node.type = "Attribute" THEN func_node.attr = S_Pdk
    ELSE FALSE

\* PdkCallChecker._is_get_cells_value
_is_get_cells_value(value_node, get_cells_vars) ==
    IF value_node.type = "Call" /\ IsGetCellsFunc(value_node.func) THEN TRUE
    ELSE IF value_node.type = "Name" THEN value_node.id \in get_cells_vars
    ELSE FALSE

\* The messages of PdkCallChecker.visit_Call
MissingRequiredMsg(filepath, lineno, names) ==
    [kind |-> "Pdk() missing required kwargs", path |-> filepath,
     lineno |-> lineno, names |-> names]
MissingRecommendedMsg(filepath, lineno, names) ==
    [kind |-> "Pdk() missing recommended kwargs", path |-> filepath,
     lineno |-> lineno, names |-> names]
GetCellsMsg(filepath, lineno) ==
    [kind |-> "Pdk(cells=...) should use get_cells()", path |-> filepath,
     lineno |-> lineno]

\* PdkCallChecker.__init__ followed by checker.visit(tree)
NewPdkCallChecker(filepath, aliases, res, get_cells_vars, tree) ==
    [filepath |-> filepath, aliases |-> aliases, result |-> res,
     found_pdk_call |-> FALSE, get_cells_vars |-> get_cells_vars,
     stack |-> <<VisitTask(tree)>>]

RECURSIVE CellsWarnings(_, _, _, _, _)
\* The loop `for kw in node.keywords` at the end of visit_Call
CellsWarnings(res, keywords, get_cells_vars, filepath, lineno) ==
    IF keywords = <<>> THEN res
    ELSE LET kw == Head(keywords) IN
         CellsWarnings(
            IF kw.arg = Some(S_cells) /\ ~_is_get_cells_value(kw.value, get_cells_vars)
            THEN warn(res, GetCellsMsg(filepath, lineno)) ELSE res,
            Tail(keywords), get_cells_vars, filepath, lineno)

\* The required-kwargs test of visit_Call reporting the whole required set.
RequiredFinding_all_names(res, filepath, lineno, kwarg_names) ==
    IF REQUIRED_KWARGS \ kwarg_names # {}
    THEN error(res, MissingRequiredMsg(filepath, lineno, sorted(REQUIRED_KWARGS)))
    ELSE res

\* The required-kwargs test of visit_Call
RequiredFinding(res, filepath, lineno, kwarg_names) ==
    LET missing == REQUIRED_KWARGS \ kwarg_names IN
    IF missing # {}
    THEN error(res, MissingRequiredMsg(filepath, lineno, sorted(missing)))
    ELSE res

\* The recommended-kwargs test of visit_Call
RecommendedFinding(res, filepath, lineno, kwarg_names) ==
    LET missing_rec == RECOMMENDED_KWARGS \ kwarg_names IN
    IF missing_rec # {}
    THEN warn(res, MissingRecommendedMsg(filepath, lineno, sorted(missing_rec)))
    ELSE res

\* PdkCallChecker.visit_Call
PdkVisitCall(c, node, rest) ==
    LET next == VisitAll(iter_child_nodes(node)) \o rest IN
    IF ~_is_pdk_constructor(node.func, c.aliases)
    THEN [c EXCEPT !.stack = next]
    ELSE LET kwarg_names ==
                {node.keywords[i].arg[1] :
                    i \in {i \in DOMAIN node.keywords : node.keywords[i].arg # None}}
             r1 == RequiredFinding(c.result, c.filepath, node.lineno, kwarg_names)
             r2 == RecommendedFinding(r1, c.filepath, node.lineno, kwarg_names)
             r3 == CellsWarnings(r2, node.keywords, c.get_cells_vars,
                                 c.filepath, node.lineno)
         IN [c EXCEPT !.found_pdk_call = TRUE, !.result = r3, !.stack = next]

\* One step of checker.visit(tree): visit_Call for a call, generic_visit
\* for any other node.
PdkStep(c) ==
    LET node == Head(c.stack).node
        rest == Tail(c.stack)
    IN IF node.type = "Call" THEN PdkVisitCall(c, node, rest)
       ELSE [c EXCEPT !.stack = VisitAll(iter_child_nodes(node)) \o rest]

RECURSIVE PdkRun(_)
\* checker.visit(tree) run to its end
PdkRun(c) == IF c.stack = <<>> THEN c ELSE PdkRun(PdkStep(c))

\* ------------------------------------------------------------------------
\* The repository on disk (pathlib.Path, hooks/_utils.py)
\* ------------------------------------------------------------------------

\* A Path is the sequence of its components below the working directory;
\* Path(".") is the empty sequence.  fs.dirs is the set of directories,
\* fs.files the set of files, each with its path and its content, and
\* fs.pyproject is what load_toml("pyproject.toml") returns.
Here == <<>>
Child(path, name) == Append(path, name)
PathName(path) == path[Len(path)]
PathParent(path) == SubSeq(path, 1, Len(path) - 1)

FilePaths(disk) == {f.path : f \in disk.files}
is_dir(disk, path) == path \in disk.dirs
exists(disk, path) == path \in disk.dirs \/ path \in FilePaths(disk)
FileContent(disk, path) == (CHOOSE f \in disk.files : f.path = path).content

\* The source text of a Python file is kept as what ast.parse makes of
\* it: SyntaxError, or the tree.
BadSyntax == [kind |-> "py", syntax_ok |-> FALSE, tree |-> Null]
Py(tree) == [kind |-> "py", syntax_ok |-> TRUE, tree |-> tree]
\* A text file and its lines
Text(lines) == [kind |-> "text", lines |-> lines]

\* parse_file(path)
parse_file(disk, path) ==
    LET content == FileContent(disk, path) IN
    IF content.syntax_ok THEN content.tree ELSE Null

\* The names of the entries of a directory
EntryNames(disk, dir) ==
    {PathName(p) : p \in {p \in disk.dirs \cup FilePaths(disk) :
                            Len(p) = Len(dir) + 1 /\ PathParent(p) = dir}}

\* sorted(dir.iterdir())
sorted_iterdir(disk, dir) ==
    LET names == sorted(EntryNames(disk, dir)) IN
    [i \in 1..Len(names) |-> Child(dir, names[i])]

\* sorted(dir.glob("*.py"))
sorted_glob_py(disk, dir) ==
    SelectSeq(sorted_iterdir(disk, dir), LAMBDA p : endswith(PathName(p), S_dot_py))

startswith(s, prefix) ==
    Len(prefix) <= Len(s) /\ SubSeq(s, 1, Len(prefix)) = prefix

UpperCase == {CharOrder[i] : i \in ord("A")..ord("Z")}
\* str.lower() and str.upper() on the characters of CharOrder
lower(s) ==
    [i \in DOMAIN s |-> IF s[i] \in UpperCase
                        THEN CharOrder[ord(s[i]) - ord("A") + ord("a")] ELSE s[i]]
LowerCase == {CharOrder[i] : i \in ord("a")..ord("z")}
upper(s) ==
    [i \in DOMAIN s |-> IF s[i] \in LowerCase
                        THEN CharOrder[ord(s[i]) - ord("a") + ord("A")] ELSE s[i]]
\* str.replace(old, new) for single characters
replace(s, old, new) == [i \in DOMAIN s |-> IF s[i] = old THEN new ELSE s[i]]

_SKIP_DIRS ==
    {S_tests, S_docs, S_notebooks, S_dot_git, S_dot_github, S_actions,
     S_hooks, S_scripts}

\* The parsed pyproject.toml: [tool.setuptools.packages.find] where and
\* include (where is None when the key is absent) and [project] name
\* ("" when absent).
PyprojectData(where, include, project_name) ==
    [type |-> "dict", where |-> where, include |-> include,
     project_name |-> project_name]

\* A directory that holds an __init__.py
IsPackage(disk, path) == is_dir(disk, path) /\ exists(disk, Child(path, S_init_py))

\* min(candidates, key=len): the first of the shortest
MinByLen(candidates) ==
    candidates[CHOOSE i \in DOMAIN candidates :
                  /\ \A j \in DOMAIN candidates : Len(candidates[i]) <= Len(candidates[j])
                  /\ \A j \in 1..(i - 1) : Len(candidates[j]) > Len(candidates[i])]

\* The last resort of find_package_dir: the first directory in sorted
\* order that is not skipped and holds an __init__.py
ScanForPackage(disk) ==
    LET found == SelectSeq(sorted_iterdir(disk, Here),
                    LAMBDA d : /\ is_dir(disk, d)
                               /\ PathName(d) \notin _SKIP_DIRS
                               /\ ~startswith(PathName(d), S_dot)
                               /\ exists(disk, Child(d, S_init_py)))
    IN IF found = <<>> THEN None ELSE Some(Head(found))

\* The project-name fallback of find_package_dir, then the scan
ByProjectName(disk, data, base) ==
    LET normalized == lower(replace(data.project_name, "-", "_"))
        pkg_path == base \o <<normalized>>
    IN IF data.project_name # S_empty /\ IsPackage(disk, pkg_path)
       THEN Some(pkg_path) ELSE ScanForPackage(disk)

\* find_package_dir() trying the project name before the include list
find_package_dir_name_first(disk) ==
    LET data == disk.pyproject IN
    IF data = Null THEN None
    ELSE LET where == IF data.where = None THEN <<Here>> ELSE data.where[1]
             base == IF where # <<>> THEN where[1] ELSE Here
             candidates == SelectSeq(data.include,
                              LAMBDA i : ~contains(i, S_star) /\ ~contains(i, S_dot))
             normalized == lower(replace(data.project_name, "-", "_"))
         IN IF data.project_name # S_empty /\ IsPackage(disk, base \o <<normalized>>)
            THEN Some(base \o <<normalized>>)
            ELSE IF candidates # <<>> /\ IsPackage(disk, base \o <<MinByLen(candidates)>>)
            THEN Some(base \o <<MinByLen(candidates)>>)
            ELSE ScanForPackage(disk)

\* find_package_dir(): None or the package directory
find_package_dir(disk) ==
    LET data == disk.pyproject IN
    IF data = Null THEN None
    ELSE LET where == IF data.where = None THEN <<Here>> ELSE data.where[1]
             base == IF where # <<>> THEN where[1] ELSE Here
             candidates == SelectSeq(data.include,
                              LAMBDA i : ~contains(i, S_star) /\ ~contains(i, S_dot))
         IN IF candidates # <<>> /\ IsPackage(disk, base \o <<MinByLen(candidates)>>)
            THEN Some(base \o <<MinByLen(candidates)>>)
            ELSE ByProjectName(disk, data, base)

\* find_band_dirs(pkg_dir) without the test on a leading underscore
find_band_dirs_keeps_underscore(disk, pkg_dir) ==
    SelectSeq(sorted_iterdir(disk, pkg_dir),
        LAMBDA d : /\ is_dir(disk, d)
                   /\ ~startswith(PathName(d), S_dot)
                   /\ exists(disk, Child(d, S_init_py))
                   /\ \/ is_dir(disk, Child(d, S_cells))
                      \/ exists(disk, Child(d, S_cells_py))
                      \/ exists(disk, Child(d, S_tech_py)))

\* find_band_dirs(pkg_dir)
find_band_dirs(disk, pkg_dir) ==
    SelectSeq(sorted_iterdir(disk, pkg_dir),
        LAMBDA d : /\ is_dir(disk, d)
                   /\ ~startswith(PathName(d), S_underscore)
                   /\ ~startswith(PathName(d), S_dot)
                   /\ exists(disk, Child(d, S_init_py))
                   /\ \/ is_dir(disk, Child(d, S_cells))
                      \/ exists(disk, Child(d, S_cells_py))
                      \/ exists(disk, Child(d, S_tech_py)))

\* _collect(base) of find_cell_files keeping the __init__.py of cells/
CollectCells_with_init(disk, base) ==
    IF is_dir(disk, Child(base, S_cells))
    THEN sorted_glob_py(disk, Child(base, S_cells))
    ELSE IF exists(disk, Child(base, S_cells_py)) THEN <<Child(base, S_cells_py)>>
    ELSE <<>>

\* _collect(base) of find_cell_files: the files it adds
CollectCells(disk, base) ==
    IF is_dir(disk, Child(base, S_cells))
    THEN SelectSeq(sorted_glob_py(disk, Child(base, S_cells)),
                   LAMBDA p : PathName(p) # S_init_py)
    ELSE IF exists(disk, Child(base, S_cells_py)) THEN <<Child(base, S_cells_py)>>
    ELSE <<>>

RECURSIVE CollectAll(_, _)
CollectAll(disk, bases) ==
    IF bases = <<>> THEN <<>>
    ELSE CollectCells(disk, Head(bases)) \o CollectAll(disk, Tail(bases))

\* find_cell_files(pkg_dir)
find_cell_files(disk, pkg_dir) ==
    CollectCells(disk, pkg_dir) \o CollectAll(disk, find_band_dirs(disk, pkg_dir))

\* get_pdk_subdirs(pkg_dir)
get_pdk_subdirs(disk, pkg_dir) ==
    LET bands == find_band_dirs(disk, pkg_dir) IN
    IF bands # <<>> THEN bands ELSE <<pkg_dir>>

\* ------------------------------------------------------------------------
\* The hooks' main() functions
\* ------------------------------------------------------------------------

\* What a run of main() leaves behind: the CheckResult it built, what it
\* printed and the exit code it returned.  order is the iteration order
\* of the sets the run iterated over.
\* `return result.report()`
Reported(hook, order, res) ==
    [hook |-> hook, order |-> order, result |-> res,
     stdout |-> report_lines(res), rc |-> report_code(res)]
\* `return 0`
Returned0(hook, order, res) ==
    [hook |-> hook, order |-> order, result |-> res, stdout |-> <<>>, rc |-> 0]

\* result.warn("Could not find package directory - skipping.") recording
\* an error instead.
PackageNotFound_as_error(res) ==
    error(res, [kind |-> "Could not find package directory - skipping."])

\* result.warn("Could not find package directory - skipping.")
PackageNotFound(res) ==
    warn(res, [kind |-> "Could not find package directory - skipping."])

\* f"{path}: could not parse (syntax error)"
CouldNotParseMsg(path) == [kind |-> "could not parse (syntax error)", path |-> path]

\* get_docstring_from_node(node): None or the docstring
get_docstring_from_node(node) ==
    IF /\ node.body # <<>>
       /\ node.body[1].type = "Expr"
       /\ node.body[1].value.type = "Constant"
       /\ node.body[1].value.vtype = "str"
    THEN Some(node.body[1].value.text)
    ELSE None

IsSpace(ch) == ch \in {" ", "\n", "\t"}

\* has_google_args_section(docstring):
\* re.search(r"^\s*Args:\s*$", docstring, re.MULTILINE)
has_google_args_section(docstring) ==
    \E i \in 1..Len(docstring), a \in 1..Len(docstring), e \in 1..Len(docstring) :
        /\ i <= a /\ a + 4 <= e
        /\ i = 1 \/ docstring[i - 1] = "\n"
        /\ \A k \in i..(a - 1) : IsSpace(docstring[k])
        /\ SubSeq(docstring, a, a + 4) = S_Args_colon
        /\ \A k \in (a + 5)..e : IsSpace(docstring[k])
        /\ e = Len(docstring) \/ docstring[e + 1] = "\n"

\* The body of the loop of check_cell_file for one top-level node
CheckCellNode(path, aliases, node, res) ==
    IF node.type # "FunctionDef" THEN res
    ELSE IF startswith(node.name, S_underscore) THEN res
    ELSE IF \E i \in DOMAIN node.decorator_list :
                is_gf_cell_decorator(node.decorator_list[i], aliases)
    THEN LET docstring == get_docstring_from_node(node)
             params == SelectSeq(node.args, LAMBDA a : a # S_self)
         IN IF docstring = None
            THEN error(res, [kind |-> "@gf.cell function missing docstring",
                             path |-> path, lineno |-> node.lineno,
                             name |-> node.name])
            ELSE IF params # <<>> /\ ~has_google_args_section(docstring[1])
            THEN error(res, [kind |-> "@gf.cell function docstring missing 'Args:' section",
                             path |-> path, lineno |-> node.lineno,
                             name |-> node.name])
            ELSE res
    ELSE IF returns_component(node, aliases)
    THEN error(res, [kind |-> "function returns Component but missing @gf.cell decorator",
                     path |-> path, lineno |-> node.lineno, name |-> node.name])
    ELSE res

\* check_cell_file(path, aliases, tree, result)
check_cell_file(path, aliases, tree, res) ==
    LET nodes == iter_child_nodes(tree)
        acc[i \in 0..Len(nodes)] ==
            IF i = 0 THEN res ELSE CheckCellNode(path, aliases, nodes[i], acc[i - 1])
    IN acc[Len(nodes)]

\* s.split(".")[0] and s.split(".")[-1]
FirstDotted(s) ==
    IF \E i \in DOMAIN s : s[i] = "."
    THEN SubSeq(s, 1, (CHOOSE i \in DOMAIN s :
                          s[i] = "." /\ \A j \in 1..(i - 1) : s[j] # ".") - 1)
    ELSE s
LastDotted(s) ==
    IF \E i \in DOMAIN s : s[i] = "."
    THEN SubSeq(s, (CHOOSE i \in DOMAIN s :
                       s[i] = "." /\ \A j \in (i + 1)..Len(s) : s[j] # ".") + 1, Len(s))
    ELSE s

\* Path.stem: the name without its last suffix
stem(path) ==
    LET name == PathName(path)
        dots == {i \in DOMAIN name : name[i] = "."}
    IN IF dots = {} THEN name
       ELSE LET i == CHOOSE i \in dots : \A j \in dots : j <= i IN
            IF 1 < i /\ i < Len(name) THEN SubSeq(name, 1, i - 1) ELSE name

\* The modules one top-level node of cells/__init__.py re-exports
ExportedBy(node) ==
    IF node.type = "ImportFrom" /\ node.module # None /\ node.module[1] # S_empty
    THEN IF node.level >= 1 THEN {FirstDotted(node.module[1])} ELSE {}
    ELSE IF node.type = "Import"
    THEN {LastDotted(node.names[i].name) : i \in DOMAIN node.names}
    ELSE {}

\* check_cells_init_exports(cells_init, cell_files, result)
check_cells_init_exports(disk, cells_init, cell_files, res) ==
    LET tree == parse_file(disk, cells_init) IN
    IF tree = Null THEN res
    ELSE LET nodes == iter_child_nodes(tree)
             exported_modules == UNION {ExportedBy(nodes[i]) : i \in DOMAIN nodes}
             acc[i \in 0..Len(cell_files)] ==
                IF i = 0 THEN res
                ELSE IF stem(cell_files[i]) \notin exported_modules
                THEN error(acc[i - 1],
                           [kind |-> "cell module is not re-exported",
                            path |-> cells_init, module |-> stem(cell_files[i])])
                ELSE acc[i - 1]
         IN acc[Len(cell_files)]

\* One cell file in the loops of check_cells_structure.main
CheckParsedCellFile(disk, cell_file, res) ==
    LET tree == parse_file(disk, cell_file) IN
    IF tree = Null THEN warn(res, CouldNotParseMsg(cell_file))
    ELSE check_cell_file(cell_file, get_import_aliases(tree), tree, res)

\* The body of `for subdir in subdirs` of check_cells_structure.main
CellsStructureSubdir(disk, subdir, res) ==
    LET cells_dir == Child(subdir, S_cells)
        cells_py == Child(subdir, S_cells_py)
    IN IF is_dir(disk, cells_dir)
       THEN LET cell_files == SelectSeq(sorted_glob_py(disk, cells_dir),
                                        LAMBDA p : PathName(p) # S_init_py)
                acc[i \in 0..Len(cell_files)] ==
                    IF i = 0 THEN res
                    ELSE CheckParsedCellFile(disk, cell_files[i], acc[i - 1])
                cells_init == Child(cells_dir, S_init_py)
            IN IF exists(disk, cells_init) /\ cell_files # <<>>
               THEN check_cells_init_exports(disk, cells_init, cell_files,
                                             acc[Len(cell_files)])
               ELSE acc[Len(cell_files)]
       ELSE IF exists(disk, cells_py)
       THEN CheckParsedCellFile(disk, cells_py, res)
       ELSE error(res, [kind |-> "no cells module found (expected cells/ or cells.py)",
                        path |-> subdir])

\* check_cells_structure.main()
check_cells_structure_main(disk) ==
    LET res == NewCheckResult("check-cells-structure")
        pkg_dir == find_package_dir(disk)
    IN IF pkg_dir = None
       THEN Reported("check_cells_structure", <<>>, PackageNotFound(res))
       ELSE LET subdirs == get_pdk_subdirs(disk, pkg_dir[1])
                acc[i \in 0..Len(subdirs)] ==
                    IF i = 0 THEN res
                    ELSE CellsStructureSubdir(disk, subdirs[i], acc[i - 1])
            IN Reported("check_cells_structure", <<>>, acc[Len(subdirs)])

LAYER_SOURCE_FILES == {S_tech_py, S_layers_py, S_config_py}

\* The body of `for cell_file in cell_files` of check_no_raw_layers.main
NoRawLayersFile(disk, cell_file, res) ==
    IF PathName(cell_file) \in LAYER_SOURCE_FILES THEN res
    ELSE LET tree == parse_file(disk, cell_file) IN
         IF tree = Null THEN res
         ELSE FinderRun(NewFinder(cell_file, res, tree)).result

\* check_no_raw_layers.main()
check_no_raw_layers_main(disk) ==
    LET res == NewCheckResult("check-no-raw-layers")
        pkg_dir == find_package_dir(disk)
    IN IF pkg_dir = None THEN Returned0("check_no_raw_layers", <<>>, res)
       ELSE LET cell_files == find_cell_files(disk, pkg_dir[1])
                acc[i \in 0..Len(cell_files)] ==
                    IF i = 0 THEN res
                    ELSE NoRawLayersFile(disk, cell_files[i], acc[i - 1])
            IN Reported("check_no_raw_layers", <<>>, acc[Len(cell_files)])

\* A Constant node whose value equals the str s
IsStrConstant(node, s) ==
    node.type = "Constant" /\ node.vtype = "str" /\ node.text = s

\* _is_main_guard(test)
_is_main_guard(test) ==
    IF Len(test.ops) # 1 \/ test.ops[1] # "Eq" THEN FALSE
    ELSE IF Len(test.comparators) # 1 THEN FALSE
    ELSE LET left == test.left
             right == test.comparators[1]
         IN \/ /\ left.type = "Name" /\ left.id = S_dunder_name
               /\ IsStrConstant(right, S_dunder_main)
            \/ /\ right.type = "Name" /\ right.id = S_dunder_name
               /\ IsStrConstant(left, S_dunder_main)

\* has_if_name_main(tree)
has_if_name_main(tree) ==
    LET nodes == iter_child_nodes(tree) IN
    \E i \in DOMAIN nodes :
        /\ nodes[i].type = "If"
        /\ nodes[i].test.type = "Compare"
        /\ _is_main_guard(nodes[i].test)

\* The body of `for cell_file in find_cell_files(pkg_dir)` of
\* check_no_main_in_cells.main
NoMainFile(disk, cell_file, res) ==
    LET tree == parse_file(disk, cell_file) IN
    IF tree = Null THEN res
    ELSE IF has_if_name_main(tree)
    THEN error(res, [kind |-> "contains if __name__ == __main__ block",
                     path |-> cell_file])
    ELSE res

\* check_no_main_in_cells.main()
check_no_main_in_cells_main(disk) ==
    LET res == NewCheckResult("check-no-main-in-cells")
        pkg_dir == find_package_dir(disk)
    IN IF pkg_dir = None THEN Returned0("check_no_main_in_cells", <<>>, res)
       ELSE LET cell_files == find_cell_files(disk, pkg_dir[1])
                acc[i \in 0..Len(cell_files)] ==
                    IF i = 0 THEN res ELSE NoMainFile(disk, cell_files[i], acc[i - 1])
            IN Reported("check_no_main_in_cells", <<>>, acc[Len(cell_files)])

\* The candidates of one subdir in check_pdk_object.main
PdkCandidates(disk, subdir) ==
    <<Child(subdir, S_init_py)>> \o sorted_glob_py(disk, subdir)
    \o (IF is_dir(disk, Child(subdir, S_pdk))
        THEN sorted_glob_py(disk, Child(subdir, S_pdk)) ELSE <<>>)

\* The state of the loops of check_pdk_object.main: the CheckResult and
\* found_any_pdk
PdkLoopState(res, found_any_pdk) == [result |-> res, found_any_pdk |-> found_any_pdk]

\* The body of `for filepath in candidates` of check_pdk_object.main
\* for a file that exists and was not seen before
PdkObjectFile(disk, filepath, st) ==
    LET tree == parse_file(disk, filepath) IN
    IF tree = Null THEN st
    ELSE LET c == PdkRun(NewPdkCallChecker(filepath, get_import_aliases(tree),
                                           st.result, _find_get_cells_vars(tree),
                                           tree))
         IN PdkLoopState(c.result, st.found_any_pdk \/ c.found_pdk_call)

\* The body of `for subdir in subdirs` of check_pdk_object.main
PdkObjectSubdir(disk, subdir, st) ==
    LET candidates == PdkCandidates(disk, subdir)
        acc[i \in 0..Len(candidates)] ==
            IF i = 0 THEN st
            ELSE IF \/ ~exists(disk, candidates[i])
                    \/ \E j \in 1..(i - 1) : candidates[j] = candidates[i]
            THEN acc[i - 1]
            ELSE PdkObjectFile(disk, candidates[i], acc[i - 1])
    IN acc[Len(candidates)]

\* check_pdk_object.main()
check_pdk_object_main(disk) ==
    LET res == NewCheckResult("check-pdk-object")
        pkg_dir == find_package_dir(disk)
    IN IF pkg_dir = None
       THEN Reported("check_pdk_object", <<>>, PackageNotFound(res))
       ELSE LET subdirs == get_pdk_subdirs(disk, pkg_dir[1])
                acc[i \in 0..Len(subdirs)] ==
                    IF i = 0 THEN PdkLoopState(res, FALSE)
                    ELSE PdkObjectSubdir(disk, subdirs[i], acc[i - 1])
                st == acc[Len(subdirs)]
            IN Reported("check_pdk_object", <<>>,
                        IF ~st.found_any_pdk
                        THEN error(st.result,
                                   [kind |-> "No Pdk() constructor call found in any package file"])
                        ELSE st.result)

\* find_assignments(tree, name): the top-level assignments to name, one
\* entry per matching target
find_assignments(tree, name) ==
    LET nodes == iter_child_nodes(tree)
        acc[i \in 0..Len(nodes)] ==
            IF i = 0 THEN <<>>
            ELSE IF nodes[i].type = "Assign"
            THEN acc[i - 1]
                 \o [k \in 1..Len(SelectSeq(nodes[i].targets,
                                    LAMBDA tg : tg.type = "Name" /\ tg.id = name))
                        |-> nodes[i]]
            ELSE acc[i - 1]
    IN acc[Len(nodes)]

\* get_assigned_string(tree, name): None or the str
get_assigned_string(tree, name) ==
    LET strs == SelectSeq(find_assignments(tree, name),
                    LAMBDA a : a.value.type = "Constant" /\ a.value.vtype = "str")
    IN IF strs = <<>> THEN None ELSE Some(Head(strs).value.text)

\* The __version__ test of check_package_init.main
VersionFinding(init_path, tree, res) ==
    IF get_assigned_string(tree, S_dunder_version) = None
    THEN IF find_assignments(tree, S_dunder_version) # <<>>
         THEN error(res, [kind |-> "__version__ is defined but not as a string literal",
                          path |-> init_path])
         ELSE error(res, [kind |-> "__version__ is not defined", path |-> init_path])
    ELSE res

\* check_package_init.main()
check_package_init_main(disk) ==
    LET res == NewCheckResult("check-package-init")
        pkg_dir == find_package_dir(disk)
    IN IF pkg_dir = None
       THEN Reported("check_package_init", <<>>, PackageNotFound(res))
       ELSE LET init_path == Child(pkg_dir[1], S_init_py) IN
            IF ~exists(disk, init_path)
            THEN Reported("check_package_init", <<>>,
                          error(res, [kind |-> "does not exist", path |-> init_path]))
            ELSE LET tree == parse_file(disk, init_path) IN
                 IF tree = Null
                 THEN Reported("check_package_init", <<>>,
                               error(res, [kind |-> "has syntax errors",
                                           path |-> init_path]))
                 ELSE LET r1 == VersionFinding(init_path, tree, res) IN
                      Reported("check_package_init", <<>>,
                               IF find_assignments(tree, S_dunder_all) = <<>>
                               THEN error(r1, [kind |-> "__all__ is not defined",
                                               path |-> init_path])
                               ELSE r1)

REQUIRED_NAMES == {S_LAYER, S_LAYER_STACK, S_LAYER_VIEWS, S_cross_sections}
RECOMMENDED_NAMES == {S_routing_strategies}

\* The orders in which iterating over a set can yield its elements: the
\* order of a set of str changes with the hash seed of the interpreter.
IterationOrders(S) ==
    {order \in [1..Cardinality(S) -> S] :
        \A i, j \in 1..Cardinality(S) : i # j => order[i] # order[j]}

\* The names one top-level node adds to collect_defined_names' dict
DefinedBy(node) ==
    CASE node.type = "Assign" ->
            {node.targets[i].id :
                i \in {i \in DOMAIN node.targets : node.targets[i].type = "Name"}}
      [] node.type = "AnnAssign" ->
            IF node.target.type = "Name" THEN {node.target.id} ELSE {}
      [] node.type \in {"ClassDef", "FunctionDef"} -> {node.name}
      [] node.type \in {"Import", "ImportFrom"} ->
            {LocalName(node.names[i]) :
                i \in {i \in DOMAIN node.names : node.names[i].name # S_star}}
      [] OTHER -> {}

\* collect_defined_names(tree): the keys of the dict it returns (its
\* callers read nothing else)
collect_defined_names(tree) ==
    LET nodes == iter_child_nodes(tree) IN
    UNION {DefinedBy(nodes[i]) : i \in DOMAIN nodes}

\* check_tech_file(tech_path, result), iterating REQUIRED_NAMES in the
\* given order
check_tech_file(disk, tech_path, res, order) ==
    LET tree == parse_file(disk, tech_path) IN
    IF tree = Null THEN error(res, CouldNotParseMsg(tech_path))
    ELSE LET defined == collect_defined_names(tree)
             acc[i \in 0..Len(order)] ==
                IF i = 0 THEN res
                ELSE IF order[i] \notin defined
                THEN error(acc[i - 1], [kind |-> "required definition not found",
                                        path |-> tech_path, name |-> order[i]])
                ELSE acc[i - 1]
         IN IF S_routing_strategies \notin defined
            THEN warn(acc[Len(order)], [kind |-> "recommended definition not found",
                                        path |-> tech_path,
                                        name |-> S_routing_strategies])
            ELSE acc[Len(order)]

\* The characters \w matches
WordChars ==
    {CharOrder[i] : i \in ord("0")..ord("9")} \cup UpperCase \cup LowerCase \cup {"_"}

\* re.match(r"^(\w+)\s*:", line): None or group 1
YamlKey(line) ==
    LET n == Cardinality({i \in DOMAIN line : \A j \in 1..i : line[j] \in WordChars})
    IN IF /\ n >= 1
          /\ \E c \in (n + 1)..Len(line) :
                line[c] = ":" /\ \A k \in (n + 1)..(c - 1) : IsSpace(line[k])
       THEN Some(SubSeq(line, 1, n)) ELSE None

RECURSIVE walk(_)
\* ast.walk(node): the node and all its descendants
walk(node) ==
    {node} \cup UNION {walk(c) : c \in Range(iter_child_nodes(node))}

\* The names a class body defines, as check_layers_consistency reads it
ClassLayerNames(cls) ==
    UNION {IF cls.body[i].type = "AnnAssign"
           THEN IF cls.body[i].target.type = "Name"
                THEN {cls.body[i].target.id} ELSE {}
           ELSE IF cls.body[i].type = "Assign"
           THEN {cls.body[i].targets[j].id :
                    j \in {j \in DOMAIN cls.body[i].targets :
                              cls.body[i].targets[j].type = "Name"}}
           ELSE {} : i \in DOMAIN cls.body}

\* The layer names check_layers_consistency finds in one source file
CodeLayersOf(disk, src_path) ==
    IF ~exists(disk, src_path) THEN {}
    ELSE LET tree == parse_file(disk, src_path) IN
         IF tree = Null THEN {}
         ELSE UNION {ClassLayerNames(cls) :
                        cls \in {n \in walk(tree) :
                                    /\ n.type = "ClassDef"
                                    /\ contains(upper(n.name), S_LAYER)}}

\* check_layers_consistency(pkg_dir, result) that stops after the warning
\* for the names found only in code
check_layers_consistency_one_direction(disk, pkg_dir, res) ==
    LET found == SelectSeq(<<Child(pkg_dir, S_layers_yaml), Child(pkg_dir, S_layers_yml)>>,
                           LAMBDA candidate : exists(disk, candidate))
    IN IF found = <<>> THEN res
       ELSE LET yaml_path == Head(found)
                lines == FileContent(disk, yaml_path).lines
                yaml_layers == {YamlKey(lines[i])[1] :
                                   i \in {i \in DOMAIN lines : YamlKey(lines[i]) # None}}
                code_layers == CodeLayersOf(disk, Child(pkg_dir, S_layers_py))
                               \cup CodeLayersOf(disk, Child(pkg_dir, S_tech_py))
                only_in_code == code_layers \ yaml_layers
                only_in_yaml == yaml_layers \ code_layers
            IN IF code_layers = {} THEN res
               ELSE IF only_in_code # {}
               THEN warn(res, [kind |-> "layers in code but not in layers.yaml",
                               path |-> PathParent(yaml_path),
                               names |-> sorted(only_in_code)])
               ELSE IF only_in_yaml # {}
               THEN warn(res, [kind |-> "layers in layers.yaml but not in code",
                               path |-> PathParent(yaml_path),
                               names |-> sorted(only_in_yaml)])
               ELSE res

\* check_layers_consistency(pkg_dir, result)
check_layers_consistency(disk, pkg_dir, res) ==
    LET found == SelectSeq(<<Child(pkg_dir, S_layers_yaml), Child(pkg_dir, S_layers_yml)>>,
                           LAMBDA candidate : exists(disk, candidate))
    IN IF found = <<>> THEN res
       ELSE LET yaml_path == Head(found)
                lines == FileContent(disk, yaml_path).lines
                yaml_layers == {YamlKey(lines[i])[1] :
                                   i \in {i \in DOMAIN lines : YamlKey(lines[i]) # None}}
                code_layers == CodeLayersOf(disk, Child(pkg_dir, S_layers_py))
                               \cup CodeLayersOf(disk, Child(pkg_dir, S_tech_py))
                only_in_code == code_layers \ yaml_layers
                only_in_yaml == yaml_layers \ code_layers
                r1 == IF only_in_code # {}
                      THEN warn(res, [kind |-> "layers in code but not in layers.yaml",
                                      path |-> PathParent(yaml_path),
                                      names |-> sorted(only_in_code)])
                      ELSE res
            IN IF code_layers = {} THEN res
               ELSE IF only_in_yaml # {}
               THEN warn(r1, [kind |-> "layers in layers.yaml but not in code",
                              path |-> PathParent(yaml_path),
                              names |-> sorted(only_in_yaml)])
               ELSE r1

\* The body of `for subdir in subdirs` of check_tech_structure.main
TechStructureSubdir(disk, subdir, res, order) ==
    LET tech_path == Child(subdir, S_tech_py) IN
    IF ~exists(disk, tech_path)
    THEN error(res, [kind |-> "tech.py not found", path |-> subdir])
    ELSE check_layers_consistency(disk, subdir,
                                  check_tech_file(disk, tech_path, res, order))

\* check_tech_structure.main(), iterating REQUIRED_NAMES in the given
\* order
check_tech_structure_main(disk, order) ==
    LET res == NewCheckResult("check-tech-structure")
        pkg_dir == find_package_dir(disk)
    IN IF pkg_dir = None
       THEN Reported("check_tech_structure", order, PackageNotFound(res))
       ELSE LET subdirs == get_pdk_subdirs(disk, pkg_dir[1])
                acc[i \in 0..Len(subdirs)] ==
                    IF i = 0 THEN res
                    ELSE TechStructureSubdir(disk, subdirs[i], acc[i - 1], order)
            IN Reported("check_tech_structure", order, acc[Len(subdirs)])

\* The keys of a band's signature, in the order of the dict literal
SignatureKeys == <<"has_cells", "has_tech", "has_models", "has_init">>

\* sig of check_multi_band.main for one band
BandSignature(disk, band) ==
    [has_cells |-> is_dir(disk, Child(band, S_cells)) \/ exists(disk, Child(band, S_cells_py)),
     has_tech |-> exists(disk, Child(band, S_tech_py)),
     has_models |-> is_dir(disk, Child(band, S_models)) \/ exists(disk, Child(band, S_models_py)),
     has_init |-> exists(disk, Child(band, S_init_py))]

\* 10a, first loop: the errors for one band
BandModuleFindings(disk, band, res) ==
    LET sig == BandSignature(disk, band)
        r1 == IF ~sig.has_init
              THEN error(res, [kind |-> "missing __init__.py", path |-> band]) ELSE res
        r2 == IF ~sig.has_cells
              THEN error(r1, [kind |-> "missing cells module (cells/ or cells.py)",
                              path |-> band])
              ELSE r1
    IN IF ~sig.has_tech
       THEN error(r2, [kind |-> "missing tech.py", path |-> band]) ELSE r2

\* The cross-band comparison warning about every key, equal or not.
BandConsistencyFindings_every_key(disk, reference, band, res) ==
    LET ref == BandSignature(disk, reference)
        sig == BandSignature(disk, band)
        acc[k \in 0..Len(SignatureKeys)] ==
            IF k = 0 THEN res
            ELSE warn(acc[k - 1],
                      [kind |-> "Inconsistency", reference_name |-> PathName(reference),
                       key |-> SignatureKeys[k], ref_val |-> ref[SignatureKeys[k]],
                       band_name |-> PathName(band), val |-> sig[SignatureKeys[k]]])
    IN acc[Len(SignatureKeys)]

\* 10a, cross-band consistency: the warnings for one band against the
\* reference band
BandConsistencyFindings(disk, reference, band, res) ==
    LET ref == BandSignature(disk, reference)
        sig == BandSignature(disk, band)
        acc[k \in 0..Len(SignatureKeys)] ==
            IF k = 0 THEN res
            ELSE IF sig[SignatureKeys[k]] # ref[SignatureKeys[k]]
            THEN warn(acc[k - 1],
                      [kind |-> "Inconsistency", reference_name |-> PathName(reference),
                       key |-> SignatureKeys[k], ref_val |-> ref[SignatureKeys[k]],
                       band_name |-> PathName(band), val |-> sig[SignatureKeys[k]]])
            ELSE acc[k - 1]
    IN acc[Len(SignatureKeys)]

\* 10b: the test files looked for, for one band
BandTestPatterns(pkg_name, band_name) ==
    LET tests_dir == <<S_tests>> IN
    <<Child(tests_dir, S_test_ \o pkg_name \o S_underscore \o band_name \o S_dot_py),
      Child(tests_dir, S_test_ \o band_name \o S_dot_py),
      Child(Child(tests_dir, band_name), S_test_pdk_py),
      Child(Child(tests_dir, band_name), S_test_ \o pkg_name \o S_dot_py)>>

\* 10b accepting only the two file names directly under tests/
BandTestFindings_flat_only(disk, pkg_name, band, res) ==
    LET patterns == BandTestPatterns(pkg_name, PathName(band)) IN
    IF \E i \in 1..2 : exists(disk, patterns[i]) THEN res
    ELSE warn(res, [kind |-> "No test file found for band",
                    band_name |-> PathName(band), pkg_name |-> pkg_name])

\* 10b: the warning for one band
BandTestFindings(disk, pkg_name, band, res) ==
    LET patterns == BandTestPatterns(pkg_name, PathName(band)) IN
    IF \E i \in DOMAIN patterns : exists(disk, patterns[i]) THEN res
    ELSE warn(res, [kind |-> "No test file found for band",
                    band_name |-> PathName(band), pkg_name |-> pkg_name])

\* check_multi_band.main() from `pkg_name = pkg_dir.name` on
MultiBandChecks(disk, pkg_dir, bands, res) ==
    LET modules[i \in 0..Len(bands)] ==
            IF i = 0 THEN res ELSE BandModuleFindings(disk, bands[i], modules[i - 1])
        consistency[i \in 1..Len(bands)] ==
            IF i = 1 THEN modules[Len(bands)]
            ELSE BandConsistencyFindings(disk, bands[1], bands[i], consistency[i - 1])
        tests[i \in 0..Len(bands)] ==
            IF i = 0 THEN consistency[Len(bands)]
            ELSE BandTestFindings(disk, PathName(pkg_dir), bands[i], tests[i - 1])
        r3 == IF is_dir(disk, <<S_tests>>) THEN tests[Len(bands)]
              ELSE consistency[Len(bands)]
        layers_in_bands ==
            SelectSeq(bands, LAMBDA band : exists(disk, Child(band, S_layers_py)))
    IN IF Len(layers_in_bands) > 1
       THEN warn(r3, [kind |-> "layers.py found in multiple bands",
                      bands |-> [i \in DOMAIN layers_in_bands |->
                                    PathName(layers_in_bands[i])],
                      path |-> Child(pkg_dir, S_layers_py)])
       ELSE r3

\* check_multi_band.main() taking every visible subdirectory of the package
\* as a band
check_multi_band_main_every_subdir(disk) ==
    LET res == NewCheckResult("check-multi-band")
        pkg_dir == find_package_dir(disk)
    IN IF pkg_dir = None THEN Returned0("check_multi_band", <<>>, res)
       ELSE LET bands == SelectSeq(sorted_iterdir(disk, pkg_dir[1]),
                            LAMBDA d : /\ is_dir(disk, d)
                                       /\ ~startswith(PathName(d), S_underscore)
                                       /\ ~startswith(PathName(d), S_dot))
            IN IF Len(bands) < 2 THEN Returned0("check_multi_band", <<>>, res)
               ELSE Reported("check_multi_band", <<>>,
                             MultiBandChecks(disk, pkg_dir[1], bands, res))

\* check_multi_band.main()
check_multi_band_main(disk) ==
    LET res == NewCheckResult("check-multi-band")
        pkg_dir == find_package_dir(disk)
    IN IF pkg_dir = None THEN Returned0("check_multi_band", <<>>, res)
       ELSE LET bands == find_band_dirs(disk, pkg_dir[1]) IN
            IF Len(bands) < 2 THEN Returned0("check_multi_band", <<>>, res)
            ELSE Reported("check_multi_band", <<>>,
                          MultiBandChecks(disk, pkg_dir[1], bands, res))

\* ------------------------------------------------------------------------
\* scripts/push_compliance.py
\* ------------------------------------------------------------------------

\* The commands sync_pdk runs, in the order of its text
SyncSteps ==
    <<"clone", "sync_templates", "run_precommit", "checkout", "add", "diff",
      "commit", "push", "pr_list", "pr_create">>

\* A command of sync_pdk has run for the repository at sync.idx
Ran(s, step, outcome) ==
    [s EXCEPT !.log = Append(@, [pdk |-> s.idx, step |-> step, outcome |-> outcome])]

\* `return` in sync_pdk, or its end: main's loop goes on with the next pdk
sync_pdk_return(s) == [s EXCEPT !.pc = "for_pdk", !.idx = @ + 1]

\* subprocess.run(..., check=True) raising CalledProcessError: nothing in
\* sync_pdk or main catches it
raise_CalledProcessError(s) == [s EXCEPT !.pc = "raised"]

\* subprocess.run(..., check=True): on to the next statement, or the
\* exception
checked(s, step, ok, next) ==
    IF ok THEN [Ran(s, step, "ok") EXCEPT !.pc = next]
    ELSE raise_CalledProcessError(Ran(s, step, "failed"))

\* After sync_templates with --dry-run ignored.
after_sync_templates_no_dry_run(changed, dry_run) ==
    IF ~changed THEN "return" ELSE "run_precommit"

\* After `changed = sync_templates(target_dir, version)`: `if not changed:
\* return`, `if dry_run: return`
after_sync_templates(changed, dry_run) ==
    IF ~changed THEN "return"
    ELSE IF dry_run THEN "return"
    ELSE "run_precommit"

\* After run_precommit(target_dir): `if no_pr: return`
after_run_precommit(no_pr) == IF no_pr THEN "return" ELSE "checkout"

\* After `gh pr list`: `if result.stdout.strip():` a PR exists, else create
after_pr_list(stdout_empty) == IF ~stdout_empty THEN "return" ELSE "pr_create"

\* Continue at pc, or return from sync_pdk
goto(s, pc) == IF pc = "return" THEN sync_pdk_return(s) ELSE [s EXCEPT !.pc = pc]

FinderIdle == Null

\* The parts of the state that a specification does not use.
IdleResult == result = Null /\ stdout = <<>> /\ returned = <<>>
IdleFinder == cell_src = Null /\ finder = FinderIdle
IdleMatcher == matcher = Null
IdlePdkCall == pdk_tree = Null /\ checker = Null
IdleHooks == fs = Null /\ run = Null /\ discovery = Null
IdleSync == sync = Null

InitResult ==
    /\ result = NewCheckResult("check")
    /\ stdout = <<>>
    /\ returned = <<>>
    /\ IdleFinder
    /\ IdleMatcher
    /\ IdlePdkCall
    /\ IdleSync
    /\ IdleHooks

\* result.error(m)
Error(m) ==
    /\ Len(result.errors) + Len(result.warnings) < MaxFindings
    /\ result' = error(result, m)
    /\ UNCHANGED <<stdout, returned>> /\ UNCHANGED NotResult

\* result.warn(m)
Warn(m) ==
    /\ Len(result.errors) + Len(result.warnings) < MaxFindings
    /\ result' = warn(result, m)
    /\ UNCHANGED <<stdout, returned>> /\ UNCHANGED NotResult

\* result.report()
Report ==
    /\ Len(returned) < MaxReports
    /\ stdout' = Append(stdout, report_lines(result))
    /\ returned' = Append(returned, report_code(result))
    /\ UNCHANGED result /\ UNCHANGED NotResult

NextResult ==
    \/ \E m \in Msgs : Error(m)
    \/ \E m \in Msgs : Warn(m)
    \/ Report

Spec == InitResult /\ [][NextResult]_vars

\* ------------------------------------------------------------------------
\* The cell files walked in SpecFinder
\* ------------------------------------------------------------------------

\* Bound: how many constructs enclose the tuple under test (calls around
\* it, the statement that holds the expression, definitions around that).
MaxNesting == 3

SeqsUpTo(S, n) == UNION {[1..k -> S] : k \in 0..n}

\* The keyword of a call written around an expression; None is **kwargs.
KwargChoices ==
    {Some(S_layer), Some(S_size), Some(S_port_layer), Some(S_via_layers), None}

\* A call written around an expression e:
\*   "arg"  make(e)        "func"  e.ref()        "kw"  make(length=10, k=e)
ExprWrappers ==
    {[w |-> "arg", arg |-> None], [w |-> "func", arg |-> None]}
    \cup {[w |-> "kw", arg |-> k] : k \in KwargChoices}

WrapExpr(w, e) ==
    CASE w.w = "arg" -> Call(Name(S_make), <<e>>, <<>>)
      [] w.w = "func" -> Call(Attribute(e, S_ref), <<>>, <<>>)
      [] w.w = "kw" -> Call(Name(S_make), <<>>,
                            <<keyword(Some(S_length), IntConst(10)),
                              keyword(w.arg, e)>>)

RECURSIVE BuildExpr(_, _)
\* The wrappers are listed outermost first.
BuildExpr(ws, leaf) ==
    IF ws = <<>> THEN leaf ELSE WrapExpr(Head(ws), BuildExpr(Tail(ws), leaf))

Pass == Expr(Name(S_x))

\* The statement that holds the expression e.
StmtHeads ==
    {"Expr", "FunctionDef.defaults", "FunctionDef.kw_defaults",
     "AsyncFunctionDef.defaults", "AsyncFunctionDef.kw_defaults",
     "FunctionDef.decorator_list", "ClassDef.bases"}

HeadStmt(h, e) ==
    CASE h = "Expr" -> Expr(e)
      [] h = "FunctionDef.defaults" -> FunctionDef(<<>>, <<e>>, <<>>, <<Pass>>)
      [] h = "FunctionDef.kw_defaults" ->
            FunctionDef(<<>>, <<>>, <<Null, e>>, <<Pass>>)
      [] h = "AsyncFunctionDef.defaults" ->
            AsyncFunctionDef(<<>>, <<e>>, <<>>, <<Pass>>)
      [] h = "AsyncFunctionDef.kw_defaults" ->
            AsyncFunctionDef(<<>>, <<>>, <<Null, e>>, <<Pass>>)
      [] h = "FunctionDef.decorator_list" ->
            FunctionDef(<<e>>, <<>>, <<>>, <<Pass>>)
      [] h = "ClassDef.bases" -> ClassDef(<<e>>, <<Pass>>)

\* A definition written around a statement s (s is its body).
StmtWrappers == {"FunctionDef", "AsyncFunctionDef", "ClassDef"}

WrapStmt(w, s) ==
    CASE w = "FunctionDef" -> FunctionDef(<<>>, <<>>, <<>>, <<s>>)
      [] w = "AsyncFunctionDef" -> AsyncFunctionDef(<<>>, <<>>, <<>>, <<s>>)
      [] w = "ClassDef" -> ClassDef(<<>>, <<s>>)

RECURSIVE BuildStmt(_, _)
BuildStmt(ws, s) ==
    IF ws = <<>> THEN s ELSE WrapStmt(Head(ws), BuildStmt(Tail(ws), s))

\* The tuple under test, on line 3: (1, 0), (1, 0, 0) and ("s", 0).
Leaves ==
    {Tuple(<<IntConst(1), IntConst(0)>>, 3),
     Tuple(<<IntConst(1), IntConst(0), IntConst(0)>>, 3),
     Tuple(<<StrConst(S_x), IntConst(0)>>, 3)}

\* A bare (9, 9) as the last statement of the file, on line 9.
Trailer == Expr(Tuple(<<IntConst(9), IntConst(9)>>, 9))

CellSources ==
    {[stmts |-> ss, head |-> h, exprs |-> es, leaf |-> l] :
        ss \in SeqsUpTo(StmtWrappers, MaxNesting - 1), h \in StmtHeads,
        es \in SeqsUpTo(ExprWrappers, MaxNesting - 1), l \in Leaves}

\* ast.parse of the file written as src
CellTree(src) ==
    Module(<<BuildStmt(src.stmts, HeadStmt(src.head, BuildExpr(src.exprs, src.leaf))),
             Trailer>>)

CellPath == "pkg/cells/a.py"

InitFinder ==
    /\ cell_src \in {s \in CellSources : Len(s.stmts) + 1 + Len(s.exprs) <= MaxNesting}
    /\ finder = NewFinder(CellPath, NewCheckResult("check-no-raw-layers"),
                          CellTree(cell_src))
    /\ IdleResult
    /\ IdleMatcher
    /\ IdlePdkCall
    /\ IdleSync
    /\ IdleHooks

\* The traversal makes its next step.
FinderVisit ==
    /\ finder.stack # <<>>
    /\ finder' = FinderStep(finder)
    /\ UNCHANGED cell_src
    /\ UNCHANGED NotFinder

NextFinder == FinderVisit

SpecFinder == InitFinder /\ [][NextFinder]_vars

FinderDone == finder # FinderIdle /\ finder.stack = <<>>

\* ------------------------------------------------------------------------
\* The cell functions given to the matchers in SpecMatchers
\* ------------------------------------------------------------------------

\* Bound: number of top-level import statements of the file.
MaxImports == 2

ImportChoices ==
    {Import(<<alias(S_gdsfactory, Some(S_gf))>>),           \* import gdsfactory as gf
     Import(<<alias(S_gdsfactory, Some(S_fw))>>),           \* import gdsfactory as fw
     Import(<<alias(S_gdsfactory, None)>>),                 \* import gdsfactory
     Import(<<alias(S_numpy, Some(S_fw))>>),                \* import numpy as fw
     Import(<<alias(S_gdsfactory_dot_typings, None)>>),     \* import gdsfactory.typings
     ImportFrom(Some(S_gdsfactory), <<alias(S_star, None)>>),          \* from gdsfactory import *
     ImportFrom(Some(S_gdsfactory), <<alias(S_cell, None)>>),          \* from gdsfactory import cell
     ImportFrom(Some(S_gdsfactory), <<alias(S_cell, Some(S_c))>>),     \* from gdsfactory import cell as c
     ImportFrom(Some(S_other), <<alias(S_thing, Some(S_c))>>),         \* from other import thing as c
     ImportFrom(Some(S_gdsfactory), <<alias(S_Component, None)>>),     \* from gdsfactory import Component
     ImportFrom(Some(S_gdsfactory), <<alias(S_Component, Some(S_C))>>),\* from gdsfactory import Component as C
     ImportFrom(Some(S_gdsfactory), <<alias(S_cell, Some(S_MyComponent))>>)}
                                                 \* from gdsfactory import cell as MyComponent

\* Decorator expressions without a call: names and attribute accesses.
DecoratorTargets ==
    {Name(n) : n \in {S_cell, S__cell, S_c, S_gdsfactory_cell, S_wrap}}
    \cup {Attribute(Name(n), S_cell) : n \in {S_gf, S_fw, S_gdsfactory, S_numpy, S_c}}
    \cup {Attribute(Name(S_gf), S_wrap),
          Attribute(Attribute(Name(S_gf), S_other), S_cell)}

\* @x, @x(...) and @x(...)(...)
DecoratorChoices ==
    DecoratorTargets
    \cup {Call(x, <<>>, <<>>) : x \in DecoratorTargets}
    \cup {Call(Call(x, <<>>, <<>>), <<>>, <<>>) : x \in DecoratorTargets}

AnnotationChoices ==
    {Name(n) : n \in {S_Component, S_C, S_MyComponent, S_c}}
    \cup {Attribute(Name(n), S_Component) : n \in {S_gf, S_fw, S_gdsfactory}}
    \cup {Attribute(Name(S_gf), S_other), StrConst(S_Component), StrConst(S_x)}

\* def f(): pass with one decorator, or with a return annotation
CellFunctionChoices ==
    {FunctionDefNode(S_f, <<d>>, <<>>, <<>>, <<>>, Null, <<Pass>>) : d \in DecoratorChoices}
    \cup {FunctionDefNode(S_f, <<>>, <<>>, <<>>, <<>>, a, <<Pass>>) : a \in AnnotationChoices}

InitMatchers ==
    /\ \E imports \in SeqsUpTo(ImportChoices, MaxImports), func \in CellFunctionChoices :
          matcher = [phase |-> "parsed", tree |-> Module(imports \o <<func>>),
                     func |-> func, aliases |-> EmptyDict, verdict |-> FALSE]
    /\ IdleResult
    /\ IdleFinder
    /\ IdlePdkCall
    /\ IdleSync
    /\ IdleHooks

\* aliases = get_import_aliases(tree)
GetImportAliases ==
    /\ matcher.phase = "parsed"
    /\ matcher' = [matcher EXCEPT !.phase = "aliased",
                                  !.aliases = get_import_aliases(matcher.tree)]
    /\ UNCHANGED NotMatcher

\* is_gf_cell_decorator(d, aliases) for the decorator of the function
IsGfCellDecorator ==
    /\ matcher.phase = "aliased"
    /\ matcher.func.decorator_list # <<>>
    /\ matcher' = [matcher EXCEPT
                     !.phase = "decorator",
                     !.verdict = is_gf_cell_decorator(matcher.func.decorator_list[1],
                                                      matcher.aliases)]
    /\ UNCHANGED NotMatcher

\* returns_component(func, aliases)
ReturnsComponent ==
    /\ matcher.phase = "aliased"
    /\ matcher.func.decorator_list = <<>>
    /\ matcher' = [matcher EXCEPT
                     !.phase = "returns",
                     !.verdict = returns_component(matcher.func, matcher.aliases)]
    /\ UNCHANGED NotMatcher

NextMatchers ==
    \/ GetImportAliases
    \/ IsGfCellDecorator
    \/ ReturnsComponent

SpecMatchers == InitMatchers /\ [][NextMatchers]_vars

\* ------------------------------------------------------------------------
\* The package files given to PdkCallChecker in SpecPdkCall
\* ------------------------------------------------------------------------

\* Bound: number of call statements in the file.
MaxPdkCalls == 2

AllPdkKwargs == REQUIRED_KWARGS \cup RECOMMENDED_KWARGS

\* get_cells(cells)
GetCellsCall == Call(Name(S_get_cells), <<Name(S_cells)>>, <<>>)

\* A call statement: the callee, the keyword names passed, the value of
\* cells= (if passed) and whether **x is passed as well.
PdkCallDesc(func, names, cells_value, star) ==
    [func |-> func, names |-> names, cells_value |-> cells_value, star |-> star]

\* Pdk(...) with every subset of the seven keywords
CallsByKeywords ==
    {PdkCallDesc(Name(S_Pdk), names, GetCellsCall, FALSE) : names \in SUBSET AllPdkKwargs}

\* gf.Pdk(...), make_Pdk_cells(...), P(...), make(...), gf.other(...)
CallsByCallee ==
    {PdkCallDesc(func, names, GetCellsCall, FALSE) :
        func \in {Attribute(Name(S_gf), S_Pdk), Name(S_make_Pdk_cells), Name(S_P),
                  Name(S_make), Attribute(Name(S_gf), S_other)},
        names \in {{}, AllPdkKwargs}}

\* Pdk(..., cells=_cells), Pdk(..., cells=gf.get_cells(cells)),
\* Pdk(..., cells=x) and Pdk(**x)
CallsByCellsValue ==
    {PdkCallDesc(Name(S_Pdk), AllPdkKwargs, v, FALSE) :
        v \in {Name(S__cells), Name(S_x),
               Call(Attribute(Name(S_gf), S_get_cells), <<Name(S_cells)>>, <<>>)}}
    \cup {PdkCallDesc(Name(S_Pdk), {}, GetCellsCall, TRUE)}

\* The calls that may follow the first one.
MoreCalls ==
    {PdkCallDesc(Name(S_Pdk), {}, GetCellsCall, FALSE),
     PdkCallDesc(Name(S_Pdk), AllPdkKwargs \ {S_name}, Name(S_x), FALSE),
     PdkCallDesc(Name(S_make), {}, GetCellsCall, FALSE)}

\* The statements of a file, each described by its kind: "import" is
\* `from gdsfactory import Pdk as P`, "assign" is `_cells = get_cells(cells)`,
\* "call" is the call described by call.
StmtDesc(k, call) == [k |-> k, call |-> call]
CallStmts(calls) == [i \in 1..Len(calls) |-> StmtDesc("call", calls[i])]

PdkFileChoices ==
    {<<StmtDesc("call", c)>> \o CallStmts(more) :
        c \in CallsByKeywords, more \in SeqsUpTo(MoreCalls, MaxPdkCalls - 1)}
    \cup {header \o <<StmtDesc("call", c)>> \o CallStmts(more) :
        header \in {<<>>, <<StmtDesc("import", Null)>>},
        c \in CallsByCallee, more \in SeqsUpTo(MoreCalls, MaxPdkCalls - 1)}
    \cup {before \o <<StmtDesc("call", c)>> \o after \o CallStmts(more) :
        before \in {<<>>, <<StmtDesc("assign", Null)>>},
        after \in {<<>>, <<StmtDesc("assign", Null)>>},
        c \in CallsByCellsValue, more \in SeqsUpTo(MoreCalls, MaxPdkCalls - 1)}

\* The keywords of a described call, in sorted order of their names.
KeywordsOf(call) ==
    LET names == sorted(call.names) IN
    [i \in 1..Len(names) |->
        keyword(Some(names[i]),
                IF names[i] = S_cells THEN call.cells_value ELSE Name(S_x))]
    \o (IF call.star THEN <<keyword(None, Name(S_x))>> ELSE <<>>)

\* The statement described by d, written on the given line.
StmtAt(d, lineno) ==
    CASE d.k = "import" -> ImportFrom(Some(S_gdsfactory), <<alias(S_Pdk, Some(S_P))>>)
      [] d.k = "assign" -> Assign(<<Name(S__cells)>>, GetCellsCall)
      [] d.k = "call" -> Expr(CallAt(d.call.func, <<>>, KeywordsOf(d.call), lineno))

\* ast.parse of the file written as descs, one statement per line
PdkTree(descs) == Module([i \in 1..Len(descs) |-> StmtAt(descs[i], i)])

PdkPath == "pkg/__init__.py"

\* check_pdk_object.main for one parsed file, up to checker.visit(tree)
InitPdkCall ==
    /\ \E descs \in PdkFileChoices : pdk_tree = PdkTree(descs)
    /\ checker = NewPdkCallChecker(PdkPath, get_import_aliases(pdk_tree),
                                   NewCheckResult("check-pdk-object"),
                                   _find_get_cells_vars(pdk_tree), pdk_tree)
    /\ IdleResult
    /\ IdleFinder
    /\ IdleMatcher
    /\ IdleHooks
    /\ IdleSync

\* The traversal makes its next step.
PdkVisit ==
    /\ checker.stack # <<>>
    /\ checker' = PdkStep(checker)
    /\ UNCHANGED pdk_tree
    /\ UNCHANGED NotPdkCall

NextPdkCall == PdkVisit

SpecPdkCall == InitPdkCall /\ [][NextPdkCall]_vars

PdkDone == checker # Null /\ checker.stack = <<>>

\* ------------------------------------------------------------------------
\* The repositories the hooks run in (SpecHooks)
\* ------------------------------------------------------------------------

\* Bounds: the number of files in a cells/ directory and the number of
\* band directories in the package.
MaxCellFiles == 2
MaxBands == 2

File(path, content) == [path |-> path, content |-> content]
Absent == [kind |-> "absent"]
\* The files of a directory given as <<name, content>> pairs, leaving out
\* the absent ones
FilesIn(dir, entries) ==
    {File(Child(dir, e[1]), e[2]) : e \in {e \in entries : e[2] # Absent}}
Disk(pyproject, dirs, files) ==
    [pyproject |-> pyproject, dirs |-> dirs, files |-> files]

\* import gdsfactory as gf
GfImport == Import(<<alias(S_gdsfactory, Some(S_gf))>>)
GfCell == Attribute(Name(S_gf), S_cell)
GfComponent == Attribute(Name(S_gf), S_Component)
RawLayerCall(lineno) ==
    Expr(CallAt(Name(S_make), <<>>,
                <<keyword(Some(S_layer), Tuple(<<IntConst(1), IntConst(0)>>, lineno))>>,
                lineno))
\* if __name__ == "__main__": ...
MainGuard == If(Compare(Name(S_dunder_name), <<"Eq">>, <<StrConst(S_dunder_main)>>), <<Pass>>)

\* A documented @gf.cell function
GoodCellTree ==
    Module(<<GfImport,
             AtLine(FunctionDefNode(S_f, <<GfCell>>, <<S_x>>, <<>>, <<>>, GfComponent,
                        <<Expr(StrConst(<<"d", "\n", "\n", " ">> \o S_Args_colon
                                        \o <<" ", "\n", " ", "x">>))>>), 2)>>)
\* A Component function without @gf.cell, a raw layer tuple, a main guard
DirtyCellTree ==
    Module(<<GfImport,
             AtLine(FunctionDefNode(S_g, <<>>, <<>>, <<>>, <<>>, GfComponent, <<Pass>>), 2),
             RawLayerCall(4),
             MainGuard>>)
\* @cell functions without docstring and without Args: section, and a
\* private function
UndocumentedCellTree ==
    Module(<<GfImport,
             AtLine(FunctionDefNode(S_f, <<Name(S_cell)>>, <<S_x>>, <<>>, <<>>, Null,
                        <<Pass>>), 2),
             AtLine(FunctionDefNode(S_h, <<Call(GfCell, <<>>, <<>>)>>, <<S_self, S_x>>,
                        <<>>, <<>>, Null,
                        <<Expr(StrConst(<<"d", ":", "\n", "A", "r", "g", "s">>))>>), 4),
             AtLine(FunctionDefNode(S__helper, <<>>, <<>>, <<>>, <<>>, GfComponent,
                        <<Pass>>), 6)>>)
CellContents ==
    {BadSyntax, Py(GoodCellTree), Py(DirtyCellTree), Py(UndocumentedCellTree)}

\* __version__ = "1.0"; __all__ = x; _cells = get_cells(cells); Pdk(...)
GoodInitTree ==
    Module(<<Assign(<<Name(S_dunder_version)>>, StrConst(S_version_1)),
             Assign(<<Name(S_dunder_all)>>, Name(S_x)),
             Assign(<<Name(S__cells)>>, GetCellsCall),
             Expr(CallAt(Name(S_Pdk), <<>>,
                         KeywordsOf(PdkCallDesc(Name(S_Pdk), AllPdkKwargs,
                                                Name(S__cells), FALSE)), 4))>>)
\* __version__ = 1; Pdk(name=x)
PoorInitTree ==
    Module(<<Assign(<<Name(S_dunder_version)>>, IntConst(1)),
             Expr(CallAt(Name(S_Pdk), <<>>, <<keyword(Some(S_name), Name(S_x))>>, 2))>>)
EmptyTree == Module(<<>>)
InitContents == {BadSyntax, Py(GoodInitTree), Py(PoorInitTree), Py(EmptyTree)}

LayerClass(name, members) ==
    ClassDefNamed(name, <<>>,
        [i \in DOMAIN members |->
            IF i = 1 THEN Assign(<<Name(members[i])>>, Tuple(<<IntConst(i), IntConst(0)>>, i))
            ELSE AnnAssign(Name(members[i]), Name(S_x), Null)])
\* tech.py with every required and recommended definition
GoodTechTree ==
    Module(<<LayerClass(S_LAYER, <<S_WG, S_SLAB>>),
             Assign(<<Name(S_LAYER_STACK)>>, Name(S_x)),
             AnnAssign(Name(S_LAYER_VIEWS), Name(S_x), Name(S_x)),
             ImportFrom(Some(S_pkg), <<alias(S_x, Some(S_cross_sections))>>),
             FunctionDefNode(S_routing_strategies, <<>>, <<>>, <<>>, <<>>, Null, <<Pass>>)>>)
\* tech.py with class LayerMap and LAYER = x only
PoorTechTree ==
    Module(<<LayerClass(S_LayerMap, <<S_WG>>), Assign(<<Name(S_LAYER)>>, Name(S_x))>>)
TechContents == {Absent, BadSyntax, Py(GoodTechTree), Py(PoorTechTree)}

LayersPyContents == {Absent, BadSyntax, Py(Module(<<LayerClass(S_LAYER, <<S_M1>>)>>))}
YamlContents ==
    {Absent,
     Text(<<S_WG \o <<":", " ", "1">>, <<"#", " ", "c">>>>),
     Text(<<S_WG \o <<" ", ":">>, S_SLAB \o <<":">>, S_M1 \o <<":", "3">>,
            <<" ">> \o S_x \o <<":">>, <<>>>>)}

\* from .a import *
ExportsA == Module(<<ImportFromLevel(Some(S_a), <<alias(S_star, None)>>, 1)>>)
\* import pkg.cells.b; from a import x
ExportsB ==
    Module(<<Import(<<alias(S_pkg_dot_cells \o S_dot \o S_b, None)>>),
             ImportFromLevel(Some(S_a), <<alias(S_x, None)>>, 0)>>)
CellsInitContents == {Absent, BadSyntax, Py(ExportsA), Py(ExportsB)}

\* a.py, b.py, ...
CellFileName(i) == <<CharOrder[ord("a") + i - 1]>> \o S_dot_py
\* b1, b2, ...
BandName(i) == <<"b", CharOrder[ord("0") + i]>>

PkgDir == <<S_pkg>>
DefaultPyproject == PyprojectData(None, <<S_pkg>>, S_empty)

\* A flat package with a cells/ directory and maybe a pdk/ directory
CellsDirRepos ==
    {Disk(DefaultPyproject,
          {PkgDir, Child(PkgDir, S_cells)}
            \cup (IF pdk = Absent THEN {} ELSE {Child(PkgDir, S_pdk)}),
          FilesIn(PkgDir, {<<S_init_py, Py(EmptyTree)>>, <<S_tech_py, Py(GoodTechTree)>>})
            \cup FilesIn(Child(PkgDir, S_cells),
                         {<<S_init_py, cells_init>>}
                         \cup {<<CellFileName(i), cell[i]>> : i \in 1..MaxCellFiles})
            \cup FilesIn(Child(PkgDir, S_pdk), {<<S_pdk_py, pdk>>})) :
        cells_init \in CellsInitContents,
        cell \in [1..MaxCellFiles -> CellContents \cup {Absent}],
        pdk \in {Absent, BadSyntax, Py(GoodInitTree)}}

\* A flat package with cells.py, tech.py, layers.py and layers.yaml
FlatRepos ==
    {Disk(DefaultPyproject, {PkgDir},
          FilesIn(PkgDir, {<<S_init_py, init>>, <<S_tech_py, tech>>,
                           <<S_layers_py, layers>>, <<yaml_name, yaml>>,
                           <<S_cells_py, cells>>})) :
        init \in InitContents, tech \in TechContents, layers \in LayersPyContents,
        yaml \in YamlContents, yaml_name \in {S_layers_yaml},
        cells \in {Absent, BadSyntax, Py(GoodCellTree)}}
    \cup {Disk(DefaultPyproject, {PkgDir},
               FilesIn(PkgDir, {<<S_init_py, Py(GoodInitTree)>>,
                                <<S_tech_py, Py(PoorTechTree)>>,
                                <<S_layers_yml, yaml>>,
                                <<S_cells_py, Py(DirtyCellTree)>>})) :
            yaml \in YamlContents}

\* What a subdirectory of the package holds: nothing at all ("absent"),
\* or a directory with these files and subdirectories
BandConfigs ==
    {"absent", "plain", "full", "broken", "tech_only", "cells_dir"}
BandDirs(band, config) ==
    CASE config = "absent" -> {}
      [] config = "cells_dir" -> {band, Child(band, S_cells)}
      [] OTHER -> {band}
BandFiles(band, config) ==
    CASE config = "absent" -> {}
      [] config = "plain" -> FilesIn(band, {<<S_init_py, Py(EmptyTree)>>})
      [] config = "full" ->
            FilesIn(band, {<<S_init_py, Py(GoodInitTree)>>, <<S_tech_py, Py(GoodTechTree)>>,
                           <<S_cells_py, Py(GoodCellTree)>>,
                           <<S_layers_py, Py(EmptyTree)>>})
      [] config = "broken" ->
            FilesIn(band, {<<S_init_py, BadSyntax>>, <<S_tech_py, BadSyntax>>,
                           <<S_cells_py, BadSyntax>>})
      [] config = "tech_only" ->
            FilesIn(band, {<<S_init_py, Py(PoorInitTree)>>, <<S_tech_py, Py(PoorTechTree)>>,
                           <<S_models_py, Py(EmptyTree)>>})
      [] config = "cells_dir" ->
            FilesIn(band, {<<S_init_py, Py(EmptyTree)>>, <<S_layers_py, Py(EmptyTree)>>})
            \cup FilesIn(Child(band, S_cells), {<<CellFileName(1), Py(DirtyCellTree)>>})

\* The tests/ directory: absent, empty, or with test files for the first
\* one or two bands
TestsConfigs == {"absent", "empty", "by_band", "by_package", "nested"}
TestsDirs(config) ==
    CASE config = "absent" -> {}
      [] config = "by_package" -> {<<S_tests>>, <<S_tests, BandName(2)>>}
      [] config = "nested" -> {<<S_tests>>, <<S_tests, BandName(1)>>}
      [] OTHER -> {<<S_tests>>}
TestsFiles(config) ==
    CASE config = "by_band" ->
            FilesIn(<<S_tests>>, {<<S_test_ \o BandName(1) \o S_dot_py, Py(EmptyTree)>>})
      [] config = "by_package" ->
            FilesIn(<<S_tests>>,
                    {<<S_test_ \o S_pkg \o S_underscore \o BandName(1) \o S_dot_py,
                       Py(EmptyTree)>>})
            \cup FilesIn(<<S_tests, BandName(2)>>, {<<S_test_pdk_py, Py(EmptyTree)>>})
      [] config = "nested" ->
            FilesIn(<<S_tests, BandName(1)>>,
                    {<<S_test_ \o S_pkg \o S_dot_py, Py(EmptyTree)>>})
      [] OTHER -> {}

\* A package with subdirectories b1, b2, ... and maybe tests/
BandRepos ==
    {Disk(DefaultPyproject,
          {PkgDir} \cup TestsDirs(tests)
            \cup UNION {BandDirs(Child(PkgDir, BandName(i)), config[i]) : i \in 1..MaxBands},
          FilesIn(PkgDir, {<<S_init_py, Py(GoodInitTree)>>}) \cup TestsFiles(tests)
            \cup UNION {BandFiles(Child(PkgDir, BandName(i)), config[i]) : i \in 1..MaxBands}) :
        config \in [1..MaxBands -> BandConfigs], tests \in TestsConfigs}

\* What load_toml("pyproject.toml") returns: None without the file
PyprojectChoices ==
    {Null,
     PyprojectData(None, <<>>, S_empty),
     DefaultPyproject,
     PyprojectData(None, <<S_pkg_star, S_pkg_dot_cells, S_my_pdk, S_pkg>>, S_empty),
     PyprojectData(None, <<>>, S_My_dash_Pdk),
     PyprojectData(None, <<S_pkg>>, S_My_dash_Pdk),
     PyprojectData(None, <<>>, S_pkg),
     PyprojectData(Some(<<>>), <<S_my_pdk>>, S_pkg),
     PyprojectData(Some(<<<<S_docs>>>>), <<S_pkg>>, S_empty)}

\* The directories at the top of the repository: each is absent, a
\* directory without __init__.py ("dir") or a package
TopLevelNames == <<S_pkg, S_my_pdk, S_tests, S_dot_git>>
TopLevelDirs(kinds) ==
    {<<TopLevelNames[i]>> : i \in {i \in DOMAIN TopLevelNames : kinds[i] # "absent"}}
    \cup (IF kinds[1] = "package" THEN {<<S_docs>>, <<S_docs, S_pkg>>} ELSE {})
TopLevelFiles(kinds) ==
    UNION {FilesIn(<<TopLevelNames[i]>>,
                   {<<S_init_py, Py(GoodInitTree)>>, <<S_tech_py, Py(GoodTechTree)>>,
                    <<S_cells_py, Py(GoodCellTree)>>}) :
             i \in {i \in DOMAIN TopLevelNames : kinds[i] = "package"}}
    \cup (IF kinds[1] = "package"
          THEN FilesIn(<<S_docs, S_pkg>>, {<<S_init_py, BadSyntax>>}) ELSE {})

\* Repositories that differ in pyproject.toml and in their top-level
\* directories
DiscoveryRepos ==
    {Disk(pyproject, TopLevelDirs(kinds), TopLevelFiles(kinds)) :
        pyproject \in PyprojectChoices,
        kinds \in {k \in [1..Len(TopLevelNames) -> {"absent", "dir", "package"}] :
                      k[3] # "dir" /\ k[4] # "dir"}}

\* A package whose cells/ directory may itself look like a band (it holds
\* __init__.py and cells.py), next to a cells.py, to subdirectories named
\* _internal and .hidden that hold __init__.py and tech.py, and to a band b1
NestedRepos ==
    {Disk(DefaultPyproject,
          {PkgDir, Child(PkgDir, S_cells)}
            \cup (IF internal THEN {Child(PkgDir, S__internal)} ELSE {})
            \cup (IF hidden THEN {Child(PkgDir, S_dot_hidden)} ELSE {})
            \cup BandDirs(Child(PkgDir, BandName(1)), band),
          FilesIn(PkgDir, {<<S_init_py, Py(EmptyTree)>>, <<S_tech_py, Py(GoodTechTree)>>,
                           <<S_cells_py, sibling>>})
            \cup FilesIn(Child(PkgDir, S_cells),
                         {<<S_init_py, cells_init>>, <<S_cells_py, cells_cells>>,
                          <<CellFileName(1), Py(GoodCellTree)>>})
            \cup (IF internal
                  THEN FilesIn(Child(PkgDir, S__internal),
                               {<<S_init_py, Py(EmptyTree)>>, <<S_tech_py, Py(GoodTechTree)>>})
                  ELSE {})
            \cup (IF hidden
                  THEN FilesIn(Child(PkgDir, S_dot_hidden),
                               {<<S_init_py, Py(EmptyTree)>>, <<S_tech_py, Py(GoodTechTree)>>})
                  ELSE {})
            \cup BandFiles(Child(PkgDir, BandName(1)), band)) :
        sibling \in {Absent, Py(DirtyCellTree)},
        cells_init \in {Absent, Py(EmptyTree)},
        cells_cells \in {Absent, Py(DirtyCellTree)},
        internal \in BOOLEAN, hidden \in BOOLEAN,
        band \in {"absent", "full"}}

Repos == CellsDirRepos \cup FlatRepos \cup BandRepos \cup DiscoveryRepos \cup NestedRepos

\* A behaviour is one run of one hook in one repository.
InitHooks ==
    /\ fs \in Repos
    /\ run = Null
    /\ discovery = Null
    /\ IdleResult
    /\ IdleFinder
    /\ IdleMatcher
    /\ IdlePdkCall
    /\ IdleSync

\* python -m hooks.check_cells_structure
CheckCellsStructure ==
    /\ run = Null
    /\ run' = check_cells_structure_main(fs)
    /\ UNCHANGED fs
    /\ UNCHANGED NotHooks

\* python -m hooks.check_no_raw_layers
CheckNoRawLayers ==
    /\ run = Null
    /\ run' = check_no_raw_layers_main(fs)
    /\ UNCHANGED fs
    /\ UNCHANGED NotHooks

\* python -m hooks.check_no_main_in_cells
CheckNoMainInCells ==
    /\ run = Null
    /\ run' = check_no_main_in_cells_main(fs)
    /\ UNCHANGED fs
    /\ UNCHANGED NotHooks

\* python -m hooks.check_multi_band
CheckMultiBand ==
    /\ run = Null
    /\ run' = check_multi_band_main(fs)
    /\ UNCHANGED fs
    /\ UNCHANGED NotHooks

\* python -m hooks.check_pdk_object
CheckPdkObject ==
    /\ run = Null
    /\ run' = check_pdk_object_main(fs)
    /\ UNCHANGED fs
    /\ UNCHANGED NotHooks

\* python -m hooks.check_tech_structure; the interpreter's hash seed fixes
\* the order in which REQUIRED_NAMES is iterated
CheckTechStructure ==
    /\ run = Null
    /\ \E order \in IterationOrders(REQUIRED_NAMES) :
          run' = check_tech_structure_main(fs, order)
    /\ UNCHANGED fs
    /\ UNCHANGED NotHooks

\* python -m hooks.check_package_init
CheckPackageInit ==
    /\ run = Null
    /\ run' = check_package_init_main(fs)
    /\ UNCHANGED fs
    /\ UNCHANGED NotHooks

NextHooks ==
    \/ CheckCellsStructure
    \/ CheckNoRawLayers
    \/ CheckNoMainInCells
    \/ CheckMultiBand
    \/ CheckPdkObject
    \/ CheckTechStructure
    \/ CheckPackageInit

SpecHooks == InitHooks /\ [][NextHooks]_vars

HookRan == run # Null

\* ------------------------------------------------------------------------
\* SpecDiscovery: the discovery functions of _utils.py called in a
\* repository
\* ------------------------------------------------------------------------

InitDiscovery ==
    /\ fs \in Repos
    /\ discovery = Null
    /\ run = Null
    /\ IdleResult
    /\ IdleFinder
    /\ IdleMatcher
    /\ IdlePdkCall
    /\ IdleSync

\* A call and its return value
Call_find(op, arg, value) == [op |-> op, arg |-> arg, value |-> value]

\* find_package_dir()
FindPackageDir ==
    /\ discovery = Null
    /\ discovery' = Call_find("find_package_dir", Here, find_package_dir(fs))
    /\ UNCHANGED fs
    /\ UNCHANGED NotDiscovery

\* find_band_dirs(pkg_dir)
FindBandDirs ==
    /\ discovery = Null
    /\ \E pkg_dir \in fs.dirs :
          discovery' = Call_find("find_band_dirs", pkg_dir, find_band_dirs(fs, pkg_dir))
    /\ UNCHANGED fs
    /\ UNCHANGED NotDiscovery

\* find_cell_files(pkg_dir)
FindCellFiles ==
    /\ discovery = Null
    /\ \E pkg_dir \in fs.dirs :
          discovery' = Call_find("find_cell_files", pkg_dir, find_cell_files(fs, pkg_dir))
    /\ UNCHANGED fs
    /\ UNCHANGED NotDiscovery

\* get_pdk_subdirs(pkg_dir)
GetPdkSubdirs ==
    /\ discovery = Null
    /\ \E pkg_dir \in fs.dirs :
          discovery' = Call_find("get_pdk_subdirs", pkg_dir, get_pdk_subdirs(fs, pkg_dir))
    /\ UNCHANGED fs
    /\ UNCHANGED NotDiscovery

NextDiscovery ==
    \/ FindPackageDir
    \/ FindBandDirs
    \/ FindCellFiles
    \/ GetPdkSubdirs

SpecDiscovery == InitDiscovery /\ [][NextDiscovery]_vars

PackageDirSought == discovery # Null /\ discovery.op = "find_package_dir"

\* ------------------------------------------------------------------------
\* SpecSync: push_compliance.main() over the repositories of pdks.yml
\* ------------------------------------------------------------------------

\* Bound: the number of repositories in pdks.yml
MaxPdks == 2

\* main() after load_pdks: the list of repositories and the flags.  A
\* repository is named by its position in the list, and pdks is the
\* length of the list.
InitSync ==
    /\ \E n \in 0..MaxPdks, dry_run \in BOOLEAN, no_pr \in BOOLEAN :
          sync = [pc |-> "for_pdk", pdks |-> n, idx |-> 1, dry_run |-> dry_run,
                  no_pr |-> no_pr, log |-> <<>>, rc |-> None]
    /\ IdleResult
    /\ IdleFinder
    /\ IdleMatcher
    /\ IdlePdkCall
    /\ fs = Null /\ run = Null /\ discovery = Null

\* for pdk in pdks: sync_pdk(pdk, version, dry_run=..., no_pr=...)
SyncPdk ==
    /\ sync.pc = "for_pdk"
    /\ sync.idx <= sync.pdks
    /\ sync' = [sync EXCEPT !.pc = "clone"]
    /\ UNCHANGED NotSync

\* print(Done...); return 0
MainReturn ==
    /\ sync.pc = "for_pdk"
    /\ sync.idx > sync.pdks
    /\ sync' = [sync EXCEPT !.pc = "done", !.rc = Some(0)]
    /\ UNCHANGED NotSync

\* git clone; `if result.returncode != 0: return`
Clone ==
    /\ sync.pc = "clone"
    /\ \E ok \in BOOLEAN :
          sync' = IF ok THEN [Ran(sync, "clone", "ok") EXCEPT !.pc = "sync_templates"]
                  ELSE sync_pdk_return(Ran(sync, "clone", "failed"))
    /\ UNCHANGED NotSync

\* changed = sync_templates(target_dir, version)
SyncTemplates ==
    /\ sync.pc = "sync_templates"
    /\ \E changed \in BOOLEAN :
          sync' = goto(Ran(sync, "sync_templates", IF changed THEN "changed" ELSE "unchanged"),
                       after_sync_templates(changed, sync.dry_run))
    /\ UNCHANGED NotSync

\* run_precommit(target_dir): the hooks pass, fail, or pre-commit is not
\* installed
RunPrecommit ==
    /\ sync.pc = "run_precommit"
    /\ \E outcome \in {"ok", "failed", "not_found"} :
          sync' = goto(Ran(sync, "run_precommit", outcome), after_run_precommit(sync.no_pr))
    /\ UNCHANGED NotSync

\* git checkout -b branch (check=True)
Checkout ==
    /\ sync.pc = "checkout"
    /\ \E ok \in BOOLEAN : sync' = checked(sync, "checkout", ok, "add")
    /\ UNCHANGED NotSync

\* git add -A (check=True)
Add ==
    /\ sync.pc = "add"
    /\ \E ok \in BOOLEAN : sync' = checked(sync, "add", ok, "diff")
    /\ UNCHANGED NotSync

\* git diff --cached --quiet; `if result.returncode == 0: return`
DiffCached ==
    /\ sync.pc = "diff"
    /\ \E staged \in BOOLEAN :
          sync' = IF staged THEN [Ran(sync, "diff", "staged") EXCEPT !.pc = "commit"]
                  ELSE sync_pdk_return(Ran(sync, "diff", "nothing_staged"))
    /\ UNCHANGED NotSync

\* git commit (check=True)
Commit ==
    /\ sync.pc = "commit"
    /\ \E ok \in BOOLEAN : sync' = checked(sync, "commit", ok, "push")
    /\ UNCHANGED NotSync

\* git push -u origin branch --force (check=True)
Push ==
    /\ sync.pc = "push"
    /\ \E ok \in BOOLEAN : sync' = checked(sync, "push", ok, "pr_list")
    /\ UNCHANGED NotSync

\* gh pr list --head branch: it prints a PR number ("exists"), prints
\* nothing because there is no PR ("none"), or fails and prints nothing
\* on stdout ("failed")
PrList ==
    /\ sync.pc = "pr_list"
    /\ \E outcome \in {"exists", "none", "failed"} :
          sync' = goto(Ran(sync, "pr_list", outcome), after_pr_list(outcome # "exists"))
    /\ UNCHANGED NotSync

\* gh pr create (check=True)
PrCreate ==
    /\ sync.pc = "pr_create"
    /\ \E ok \in BOOLEAN :
          sync' = IF ok THEN sync_pdk_return(Ran(sync, "pr_create", "ok"))
                  ELSE raise_CalledProcessError(Ran(sync, "pr_create", "failed"))
    /\ UNCHANGED NotSync

NextSync ==
    \/ SyncPdk
    \/ MainReturn
    \/ Clone
    \/ SyncTemplates
    \/ RunPrecommit
    \/ Checkout
    \/ Add
    \/ DiffCached
    \/ Commit
    \/ Push
    \/ PrList
    \/ PrCreate

SpecSync == InitSync /\ [][NextSync]_vars

\* C1: after any sequence of error() and warn() calls, report() returns 1
\* if and only if error() was called at least once; a warnings-only run
\* returns 0.  Findings are only appended, so "error() was called" is
\* "the error list is non-empty" at the time of the report; the code
\* returned by the latest report is compared with the lists it read.
\* (result is unchanged by Report, and a later error()/warn() is followed
\* by no check until the next report, hence the comparison is made in the
\* step that reports.)
C1_ExitCodeIffErrors ==
    [][Report => /\ (returned'[Len(returned')] = 1) <=> has_errors(result)
                 /\ returned'[Len(returned')] \in {0, 1}
                 /\ (result.errors = <<>> => returned'[Len(returned')] = 0)]_vars

\* C1 witness: a report that returned 0 although several warnings were
\* recorded, and a report that returned 1.
C1_Witness ==
    /\ Len(returned) = 2
    /\ returned[1] = 0
    /\ returned[2] = 1
    /\ Len(result.warnings) >= 2

\* ------------------------------------------------------------------------
\* Claims about RawLayerTupleFinder (SpecFinder)
\* ------------------------------------------------------------------------

LayerTuple2 == Tuple(<<IntConst(1), IntConst(0)>>, 3)

\* How often the finding for the tuple under test / for the trailing
\* tuple was recorded; for a tuple that has no two integer values, the
\* number of findings on its line.
LeafFindings ==
    IF _is_layer_tuple(cell_src.leaf)
    THEN SeqCount(finder.result.errors, RawLayerMsg(CellPath, cell_src.leaf))
    ELSE Len(SelectSeq(finder.result.errors,
                       LAMBDA m : m.lineno = cell_src.leaf.lineno))
TrailerFindings == SeqCount(finder.result.errors, RawLayerMsg(CellPath, Trailer.value))

\* The tuple is written in a parameter default (of a def or an async def).
SrcInDefault ==
    cell_src.head \in {"FunctionDef.defaults", "FunctionDef.kw_defaults",
                       "AsyncFunctionDef.defaults", "AsyncFunctionDef.kw_defaults"}

\* The tuple is written inside a class definition.
SrcInClass ==
    \/ cell_src.head = "ClassDef.bases"
    \/ \E i \in DOMAIN cell_src.stmts : cell_src.stmts[i] = "ClassDef"

\* A keyword name that bears a layer: in the fixed set or with the suffix.
LayerBearing(k) ==
    k # None /\ (\/ k[1] \in _LAYER_KWARG_NAMES
                 \/ endswith(k[1], S__layer)
                 \/ endswith(k[1], S__layers))

\* The tuple is the value of a keyword of a call, and that keyword.
SrcIsKeywordValue ==
    cell_src.exprs # <<>> /\ cell_src.exprs[Len(cell_src.exprs)].w = "kw"
SrcKeyword == cell_src.exprs[Len(cell_src.exprs)].arg

RECURSIVE LastKw(_)
\* The keyword whose value encloses the tuple most closely (None if the
\* tuple is in no keyword value).
LastKw(ws) ==
    IF ws = <<>> THEN None
    ELSE IF ws[Len(ws)].w = "kw" THEN ws[Len(ws)].arg
    ELSE LastKw(SubSeq(ws, 1, Len(ws) - 1))

\* The traversal reaches the tuple: it is neither in the callee
\* expression of a call nor in a decorator.
SrcVisited ==
    /\ cell_src.head # "FunctionDef.decorator_list"
    /\ \A i \in DOMAIN cell_src.exprs : cell_src.exprs[i].w # "func"

\* C4: for every call anywhere in a walked cell file outside class bodies
\* and parameter defaults, whatever expression position the call occupies
\* (receiver of a chained attribute call, argument of another call, ...),
\* a two-element all-integer tuple passed as the value of a layer-bearing
\* keyword produces exactly one error carrying its line and both values.
C4_LayerKeywordTupleFlaggedOnce ==
    (/\ FinderDone
     /\ cell_src.leaf = LayerTuple2
     /\ SrcIsKeywordValue /\ LayerBearing(SrcKeyword)
     /\ ~SrcInClass /\ ~SrcInDefault)
    => LeafFindings = 1

\* C5: a two-element all-integer tuple visited outside parameter defaults
\* and class bodies is recorded if and only if the keyword context is
\* None, a member of the fixed set, or ends with _layer / _layers; so
\* make(size=(1, 0)) gives no finding and a bare (1, 0) gives one.
C5_FlaggedIffLayerContext ==
    (/\ FinderDone
     /\ cell_src.leaf = LayerTuple2
     /\ SrcVisited /\ ~SrcInClass /\ ~SrcInDefault)
    => LET k == LastKw(cell_src.exprs) IN
       /\ LeafFindings \in {0, 1}
       /\ LeafFindings = 1 <=>
            (\/ k = None
             \/ k[1] \in _LAYER_KWARG_NAMES
             \/ endswith(k[1], S__layer)
             \/ endswith(k[1], S__layers))
       /\ (k = Some(S_size) => LeafFindings = 0)
       /\ (cell_src.exprs = <<>> => LeafFindings = 1)

\* C5 witness: make(length=10, size=(1, 0)) walked to the end without a
\* finding for the tuple.
C5_Witness ==
    /\ FinderDone
    /\ cell_src = [stmts |-> <<>>, head |-> "Expr",
                   exprs |-> <<[w |-> "kw", arg |-> Some(S_size)]>>,
                   leaf |-> LayerTuple2]
    /\ LeafFindings = 0
    /\ TrailerFindings = 1

\* C6: a two-element all-integer tuple anywhere inside a parameter default
\* (positional or keyword-only) of any function definition, synchronous or
\* async, top-level or nested, never produces a finding.
C6_NoFindingInParameterDefault ==
    (/\ cell_src # Null
     /\ cell_src.leaf = LayerTuple2
     /\ SrcInDefault)
    => LeafFindings = 0

\* C7: the class-body flag is true exactly while the traversal is inside
\* the subtree of some class definition (a visit_ClassDef has started and
\* not yet returned); no tuple inside a class produces a finding; when the
\* class is left the flag is back at its previous value, so the qualifying
\* tuple of the later statement is flagged.
C7_ClassBodyFlag ==
    finder # FinderIdle =>
        /\ finder.in_class_body <=>
              (\E i \in DOMAIN finder.stack : finder.stack[i].op = "restore_class")
        /\ (SrcInClass => LeafFindings = 0)
        /\ (FinderDone => ~finder.in_class_body /\ TrailerFindings = 1)

\* C7 witness: class A: (1, 0) followed by (9, 9), walked to the end.
C7_Witness ==
    /\ FinderDone
    /\ cell_src = [stmts |-> <<"ClassDef">>, head |-> "Expr", exprs |-> <<>>,
                   leaf |-> LayerTuple2]
    /\ LeafFindings = 0
    /\ TrailerFindings = 1

\* ------------------------------------------------------------------------
\* Claims about the decorator and return-type matchers (SpecMatchers)
\* ------------------------------------------------------------------------

\* The import statements of the file under test.
MatcherImports == SubSeq(matcher.tree.body, 1, Len(matcher.tree.body) - 1)

\* A call-style decorator unwrapped to its callee.
Callee(d) == IF d.type = "Call" THEN d.func ELSE d

C9_BareAnnotationByResolvedPath ==
    (/\ matcher # Null
     /\ matcher.phase = "returns"
     /\ matcher.func.returns.type = "Name") =>
        LET resolved == DictGet(matcher.aliases, matcher.func.returns.id, S_empty) IN
        matcher.verdict <=>
            (contains(resolved, S_gdsfactory) /\ contains(resolved, S_Component))

\* ------------------------------------------------------------------------
\* Claims about PdkCallChecker (SpecPdkCall)
\* ------------------------------------------------------------------------

\* The lines of the call statements of the file whose callee is matched
\* as the Pdk constructor.
MatchedCallLines ==
    {i \in DOMAIN pdk_tree.body :
        /\ pdk_tree.body[i].type = "Expr"
        /\ pdk_tree.body[i].value.type = "Call"
        /\ _is_pdk_constructor(pdk_tree.body[i].value.func, checker.aliases)}

\* The names passed as explicit keywords by the call on line i.
PassedKeywords(i) ==
    LET kws == pdk_tree.body[i].value.keywords IN
    {kws[j].arg[1] : j \in {j \in DOMAIN kws : kws[j].arg # None}}

\* The findings of one kind recorded for line i.
FindingsAt(findings, kind, i) ==
    SelectSeq(findings, LAMBDA m : m.kind = kind /\ m.lineno = i)

\* The required and the recommended names in sorted order.
RequiredSorted == <<S_cells, S_cross_sections, S_layers, S_name>>
RecommendedSorted == <<S_layer_stack, S_layer_views, S_routing_strategies>>

\* C10: for every matched Pdk constructor call, if some required keyword
\* names are not passed as explicit keywords then exactly one error is
\* recorded for the call, listing exactly the missing names in sorted
\* order (one missing name gives a one-element list); likewise at most
\* one warning per call lists the missing recommended names, sorted.
C10_OneFindingListsMissingKwargs ==
    PdkDone =>
        \A i \in MatchedCallLines :
            LET passed == PassedKeywords(i)
                errs == FindingsAt(checker.result.errors,
                                   "Pdk() missing required kwargs", i)
                warns == FindingsAt(checker.result.warnings,
                                    "Pdk() missing recommended kwargs", i)
                missing == SelectSeq(RequiredSorted, LAMBDA n : n \notin passed)
                missing_rec == SelectSeq(RecommendedSorted, LAMBDA n : n \notin passed)
            IN /\ Len(errs) = (IF missing = <<>> THEN 0 ELSE 1)
               /\ \A j \in DOMAIN errs : errs[j].names = missing
               /\ Len(warns) = (IF missing_rec = <<>> THEN 0 ELSE 1)
               /\ \A j \in DOMAIN warns : warns[j].names = missing_rec

\* C10 witness: a Pdk(...) call on line 1 that passes every keyword but
\* name= has been visited: one error with the one-element list ['name'],
\* no warning.
C10_Witness ==
    /\ PdkDone
    /\ 1 \in MatchedCallLines
    /\ PassedKeywords(1) = AllPdkKwargs \ {S_name}
    /\ checker.result.errors = <<MissingRequiredMsg(PdkPath, 1, <<S_name>>)>>
    /\ checker.result.warnings = <<>>


\* ------------------------------------------------------------------------
\* Claims about the hooks' main() functions (SpecHooks)
\* ------------------------------------------------------------------------

ParsingHooks ==
    {"check_cells_structure", "check_no_raw_layers", "check_no_main_in_cells",
     "check_pdk_object", "check_tech_structure", "check_package_init"}

RECURSIVE PdkCandidatesAll(_, _)
PdkCandidatesAll(disk, subdirs) ==
    IF subdirs = <<>> THEN <<>>
    ELSE PdkCandidates(disk, Head(subdirs)) \o PdkCandidatesAll(disk, Tail(subdirs))

\* The files a hook reads as Python source in a repository whose package
\* directory is pkg_dir.
CandidateFiles(hook, disk, pkg_dir) ==
    LET subdirs == get_pdk_subdirs(disk, pkg_dir) IN
    CASE hook = "check_cells_structure" -> Range(CollectAll(disk, subdirs))
      [] hook = "check_no_raw_layers" ->
            {p \in Range(find_cell_files(disk, pkg_dir)) :
                PathName(p) \notin LAYER_SOURCE_FILES}
      [] hook = "check_no_main_in_cells" -> Range(find_cell_files(disk, pkg_dir))
      [] hook = "check_pdk_object" ->
            {p \in Range(PdkCandidatesAll(disk, subdirs)) : exists(disk, p)}
      [] hook = "check_tech_structure" ->
            {p \in {Child(subdirs[i], S_tech_py) : i \in DOMAIN subdirs} : exists(disk, p)}
      [] hook = "check_package_init" ->
            {p \in {Child(pkg_dir, S_init_py)} : exists(disk, p)}

\* The findings that name the file
FindingsAbout(findings, path) ==
    SelectSeq(findings, LAMBDA m : "path" \in DOMAIN m /\ m.path = path)
FindingsNotAbout(findings, path) ==
    SelectSeq(findings, LAMBDA m : ~("path" \in DOMAIN m /\ m.path = path))

\* The repository with the content of one file replaced
WithContent(disk, path, content) ==
    [disk EXCEPT !.files = {f \in @ : f.path # path} \cup {File(path, content)}]

\* The run of the hook in another repository
RunOf(hook, order, disk) ==
    CASE hook = "check_cells_structure" -> check_cells_structure_main(disk)
      [] hook = "check_no_raw_layers" -> check_no_raw_layers_main(disk)
      [] hook = "check_no_main_in_cells" -> check_no_main_in_cells_main(disk)
      [] hook = "check_multi_band" -> check_multi_band_main(disk)
      [] hook = "check_pdk_object" -> check_pdk_object_main(disk)
      [] hook = "check_tech_structure" -> check_tech_structure_main(disk, order)
      [] hook = "check_package_init" -> check_package_init_main(disk)

\* C2: in each of the six hooks that parse package source files, a
\* candidate file with invalid syntax is skipped: exactly one warning
\* names it, no error names it, and the findings about everything else
\* are those of the run in which that file is an empty, valid module.
C2_InvalidFileSkippedWithOneWarning ==
    (HookRan /\ run.hook \in ParsingHooks /\ find_package_dir(fs) # None) =>
        \A p \in CandidateFiles(run.hook, fs, find_package_dir(fs)[1]) :
            ~FileContent(fs, p).syntax_ok =>
                LET other == RunOf(run.hook, run.order,
                                   WithContent(fs, p, Py(EmptyTree))).result
                IN /\ Len(FindingsAbout(run.result.warnings, p)) = 1
                   /\ FindingsAbout(run.result.errors, p) = <<>>
                   /\ FindingsNotAbout(run.result.errors, p)
                        = FindingsNotAbout(other.errors, p)
                   /\ FindingsNotAbout(run.result.warnings, p)
                        = FindingsNotAbout(other.warnings, p)

\* C3: when find_package_dir() returns None, each of the seven hooks
\* returns exit code 0, records no error and records at most one
\* warning.
C3_NoPackageDirIsASkip ==
    (HookRan /\ find_package_dir(fs) = None) =>
        /\ run.rc = 0
        /\ run.result.errors = <<>>
        /\ Len(run.result.warnings) <= 1

\* C3 witness: check_pdk_object has run in a repository without
\* pyproject.toml whose pkg/ directory is a package, and recorded its one
\* warning.
C3_Witness ==
    /\ HookRan
    /\ run.hook = "check_pdk_object"
    /\ fs.pyproject = Null
    /\ IsPackage(fs, PkgDir)
    /\ find_package_dir(fs) = None
    /\ Len(run.result.warnings) = 1
    /\ run.rc = 0


\* ------------------------------------------------------------------------
\* More claims about PdkCallChecker (SpecPdkCall)
\* ------------------------------------------------------------------------

\* The statement on line k assigns the variable from a get_cells(...) call.
AssignsFromGetCells(k, id) ==
    /\ pdk_tree.body[k].type = "Assign"
    /\ pdk_tree.body[k].value.type = "Call"
    /\ IsGetCellsFunc(pdk_tree.body[k].value.func)
    /\ \E t \in DOMAIN pdk_tree.body[k].targets :
          /\ pdk_tree.body[k].targets[t].type = "Name"
          /\ pdk_tree.body[k].targets[t].id = id

\* C11: when cells= of a matched Pdk call is a variable, it counts as
\* produced by get_cells only if a module-level assignment of it from a
\* get_cells(...) call stands on an earlier line than the call; otherwise
\* (no such assignment, or only one after the call) the 'should use
\* get_cells()' warning is recorded for the call.
C11_ForwardReferenceIsWarned ==
    PdkDone =>
        \A i \in MatchedCallLines :
            LET kws == pdk_tree.body[i].value.keywords IN
            \A j \in DOMAIN kws :
                (kws[j].arg = Some(S_cells) /\ kws[j].value.type = "Name") =>
                    (FindingsAt(checker.result.warnings,
                                "Pdk(cells=...) should use get_cells()", i) = <<>>
                     <=> \E k \in 1..(i - 1) : AssignsFromGetCells(k, kws[j].value.id))


\* ------------------------------------------------------------------------
\* Claims about check_multi_band (SpecHooks)
\* ------------------------------------------------------------------------

MultiBandRan == HookRan /\ run.hook = "check_multi_band" /\ find_package_dir(fs) # None
RunPkgDir == find_package_dir(fs)[1]
\* The bands of the repository's package, as a set
RunBands == Range(find_band_dirs(fs, RunPkgDir))
\* The band whose name is lexicographically first
FirstBand == CHOOSE b \in RunBands : \A c \in RunBands \ {b} : StrLess(PathName(b), PathName(c))

LacksCells(band) ==
    ~is_dir(fs, Child(band, S_cells)) /\ ~exists(fs, Child(band, S_cells_py))
LacksTech(band) == ~exists(fs, Child(band, S_tech_py))
\* The value of a signature key for a band, read from the repository
KeyValue(band, key) ==
    CASE key = "has_cells" -> ~LacksCells(band)
      [] key = "has_tech" -> ~LacksTech(band)
      [] key = "has_models" ->
            is_dir(fs, Child(band, S_models)) \/ exists(fs, Child(band, S_models_py))
      [] key = "has_init" -> exists(fs, Child(band, S_init_py))

Count(findings, Test(_)) == Len(SelectSeq(findings, Test))
BoolToNat(b) == IF b THEN 1 ELSE 0

C13_FindingsAreDeterministic ==
    HookRan =>
        \A order \in IterationOrders(REQUIRED_NAMES) :
            LET again == RunOf(run.hook, order, fs) IN
            /\ again.result.errors = run.result.errors
            /\ again.result.warnings = run.result.warnings
            /\ again.rc = run.rc


\* ------------------------------------------------------------------------
\* The three strategies of find_package_dir, each on its own
\* ------------------------------------------------------------------------

\* Path(where[0]) if where else Path(".")
SearchBase(disk) ==
    IF disk.pyproject.where = None \/ disk.pyproject.where[1] = <<>> THEN Here
    ELSE disk.pyproject.where[1][1]

\* Strategy 1: the shortest include entry without "*" or "." names a
\* package under the search base
IncludeStrategy(disk) ==
    IF disk.pyproject = Null THEN None
    ELSE LET include == disk.pyproject.include
             plain == {i \in DOMAIN include :
                          ~contains(include[i], S_star) /\ ~contains(include[i], S_dot)}
             IsRoot(i) == \A j \in plain :
                             \/ Len(include[i]) < Len(include[j])
                             \/ Len(include[i]) = Len(include[j]) /\ i <= j
         IN IF plain = {} THEN None
            ELSE LET p == SearchBase(disk) \o <<include[CHOOSE i \in plain : IsRoot(i)]>>
                 IN IF IsPackage(disk, p) THEN Some(p) ELSE None

\* Strategy 2: the normalized project name names a package under the
\* search base
ProjectNameStrategy(disk) ==
    IF disk.pyproject = Null \/ disk.pyproject.project_name = S_empty THEN None
    ELSE LET p == SearchBase(disk)
                    \o <<lower(replace(disk.pyproject.project_name, "-", "_"))>>
         IN IF IsPackage(disk, p) THEN Some(p) ELSE None

\* The top-level directories the scan accepts
Scannable(disk) ==
    {d \in disk.dirs : /\ Len(d) = 1
                       /\ PathName(d) \notin _SKIP_DIRS
                       /\ ~startswith(PathName(d), S_dot)
                       /\ exists(disk, Child(d, S_init_py))}

\* Strategy 3: the first scannable directory in sorted order
ScanStrategy(disk) ==
    IF Scannable(disk) = {} THEN None
    ELSE Some(CHOOSE d \in Scannable(disk) :
                 \A e \in Scannable(disk) : e = d \/ StrLess(PathName(d), PathName(e)))

\* C14: find_package_dir returns the result of the first strategy that
\* succeeds, in the order include list, normalized project name, scan of
\* the top-level directories: when the include list names a package that
\* package is returned whatever the other two would give, and when it does
\* not but the project name does, the project name's package is returned
\* whatever the scan would give; with a build configuration for which
\* both fail the scan's result is returned.
C14_FirstSucceedingStrategyWins ==
    PackageDirSought =>
        /\ IncludeStrategy(fs) # None => discovery.value = IncludeStrategy(fs)
        /\ IncludeStrategy(fs) = None /\ ProjectNameStrategy(fs) # None
              => discovery.value = ProjectNameStrategy(fs)
        /\ fs.pyproject # Null /\ IncludeStrategy(fs) = None
              /\ ProjectNameStrategy(fs) = None
              => discovery.value = ScanStrategy(fs)

\* The include list, the project name and the scan each name a package,
\* and the include list's differs from both of the others
C14_Witness ==
    /\ PackageDirSought
    /\ IncludeStrategy(fs) # None
    /\ ProjectNameStrategy(fs) # None
    /\ ScanStrategy(fs) # None
    /\ IncludeStrategy(fs) # ProjectNameStrategy(fs)
    /\ IncludeStrategy(fs) # ScanStrategy(fs)
    /\ discovery.value = IncludeStrategy(fs)

\* The project name wins over a scan that would give another directory
C14_NameOverScan ==
    /\ PackageDirSought
    /\ IncludeStrategy(fs) = None
    /\ ProjectNameStrategy(fs) # None
    /\ ScanStrategy(fs) # None
    /\ ProjectNameStrategy(fs) # ScanStrategy(fs)


\* C15: find_package_dir returns None only when all three strategies fail:
\* whenever some top-level directory that is not dot-prefixed and not in
\* the skip set holds an __init__.py, a package directory is returned,
\* whatever the build-configuration file is (absent, present without
\* include list and project name, or naming no package).
C15_ScannablePackageIsFound ==
    PackageDirSought /\ Scannable(fs) # {} => discovery.value # None


\* What report() printed has a header line
HasHeader(lines) == \E i \in DOMAIN lines : lines[i].kind = "header"

\* C16: report() prints the header naming the check and its error count
\* if and only if at least one finding of any severity was recorded: a
\* warnings-only run still prints the header, before the warning section,
\* and a run with zero findings prints nothing at all.
C16_HeaderIffAnyFinding ==
    [][Report =>
        LET lines == stdout'[Len(stdout')] IN
        /\ HasHeader(lines) <=> (result.errors # <<>> \/ result.warnings # <<>>)
        /\ \A i, j \in DOMAIN lines :
              lines[i].kind = "header" /\ lines[j].kind = "warnings_heading" => i < j
        /\ (result.errors = <<>> /\ result.warnings = <<>>) => lines = <<>>]_vars


\* The messages of the lines of one kind, in the order printed
Printed(lines, kind) ==
    LET picked == SelectSeq(lines, LAMBDA l : l.kind = kind)
    IN [i \in DOMAIN picked |-> picked[i].msg]

\* C17: whatever the interleaving of the error() and warn() calls,
\* report() prints every recorded finding exactly once, all errors before
\* any warning, each severity in recording order (the printed errors are
\* the error list and the printed warnings the warning list, as
\* sequences); report() leaves the findings as they were, and a second
\* report() with no call in between prints the same and returns the same
\* code.
C17_ReportPrintsFindingsInOrder ==
    [][Report =>
        LET lines == stdout'[Len(stdout')] IN
        /\ Printed(lines, "error") = result.errors
        /\ Printed(lines, "warning") = result.warnings
        /\ \A i, j \in DOMAIN lines :
              lines[i].kind = "error" /\ lines[j].kind = "warning" => i < j
        /\ result' = result
        /\ report_lines(result') = lines
        /\ report_code(result') = returned'[Len(returned')]]_vars

\* Errors and warnings were recorded interleaved (a warning between two
\* errors, and a warning after them) and reported twice with the same
\* output and code
C17_Witness ==
    /\ Len(stdout) = 2
    /\ stdout[1] = stdout[2]
    /\ returned[1] = returned[2]
    /\ Len(result.errors) >= 2
    /\ Len(result.warnings) >= 2
    /\ result.errors[1] # result.errors[2]
    /\ result.warnings[1] # result.warnings[2]


\* The name an import alias binds in the importing file: the asname when
\* there is one, else for `import a.b` the top-level package a, else the
\* imported name
BoundName(node, a) ==
    IF a.asname # None THEN a.asname[1]
    ELSE IF node.type = "Import" THEN FirstDotted(a.name)
    ELSE a.name

\* The module path of a plain import, module + "." + name of a from-import
ImportedPath(node, a) ==
    IF node.type = "Import" \/ node.module = None THEN a.name
    ELSE node.module[1] \o S_dot \o a.name

\* The aliases of the top-level import statements, star-imports left out,
\* each with its statement
TopLevelImported(tree) ==
    UNION {{<<n, a>> : a \in {x \in Range(n.names) :
                                 ~(n.type = "ImportFrom" /\ x.name = S_star)}} :
           n \in {m \in Range(tree.body) : m.type \in {"Import", "ImportFrom"}}}

\* C18: the keys of the map get_import_aliases returns are exactly the
\* local names bound by the top-level non-star import statements of the
\* file (for a plain import the name the statement binds, a dotted module
\* path imported without "as" included; for a from-import with "as" the
\* asname), and each key is mapped to the module path, or to module + "."
\* + name, of an import that binds it.
C18_KeysAreBoundNames ==
    matcher # Null /\ matcher.phase # "parsed" =>
        /\ DOMAIN matcher.aliases
              = {BoundName(p[1], p[2]) : p \in TopLevelImported(matcher.tree)}
        /\ \A k \in DOMAIN matcher.aliases :
              \E p \in TopLevelImported(matcher.tree) :
                 BoundName(p[1], p[2]) = k /\ matcher.aliases[k] = ImportedPath(p[1], p[2])


\* The file at path parses and PdkCallChecker finds a Pdk() call in it
HoldsPdkCall(disk, path) ==
    /\ exists(disk, path)
    /\ parse_file(disk, path) # Null
    /\ LET tree == parse_file(disk, path) IN
       PdkRun(NewPdkCallChecker(path, get_import_aliases(tree),
                                NewCheckResult("check-pdk-object"),
                                _find_get_cells_vars(tree), tree)).found_pdk_call

NoPdkCallError ==
    \E i \in DOMAIN run.result.errors :
       run.result.errors[i].kind = "No Pdk() constructor call found in any package file"

\* C19: the package root's __init__.py is always among the files
\* check_pdk_object searches: when it holds a Pdk() call, in a flat layout
\* and in a layout with bands alike, the error "No Pdk() constructor call
\* found in any package file" is not recorded.
C19_RootInitializerIsSearched ==
    (/\ HookRan
     /\ run.hook = "check_pdk_object"
     /\ find_package_dir(fs) # None
     /\ HoldsPdkCall(fs, Child(find_package_dir(fs)[1], S_init_py)))
        => ~NoPdkCallError


\* The four accepted test-file paths of a band
AcceptedTestPaths(pkg, band) ==
    {<<S_tests, S_test_ \o pkg \o S_underscore \o band \o S_dot_py>>,
     <<S_tests, S_test_ \o band \o S_dot_py>>,
     <<S_tests, band, S_test_pdk_py>>,
     <<S_tests, band, S_test_ \o pkg \o S_dot_py>>}

HasTestFile(b) ==
    \E p \in AcceptedTestPaths(PathName(RunPkgDir), PathName(b)) : exists(fs, p)

\* The warnings of the run that a band has no test file, for band b
TestWarnings(b) ==
    Count(run.result.warnings,
          LAMBDA m : m.kind = "No test file found for band" /\ m.band_name = PathName(b))

NoTestFileError ==
    \A i \in DOMAIN run.result.errors :
       run.result.errors[i].kind # "No test file found for band"

\* C20 as stated: with two or more bands, a band with none of the four
\* accepted test-file paths gets exactly one warning naming it, a band
\* with one of them gets none, and no error is recorded for it.
C20_WarningIffNoTestPath ==
    (MultiBandRan /\ Cardinality(RunBands) >= 2) =>
        /\ \A b \in RunBands : TestWarnings(b) = BoolToNat(~HasTestFile(b))
        /\ NoTestFileError

\* C20 amended: in a repository with a tests/ directory, a band with none
\* of the four accepted test-file paths gets exactly one warning naming it
\* and a band with one of them gets none; without a tests/ directory no band
\* gets the warning; no error is recorded for a missing test file.
C20_WarningIffNoTestPathUnderTests ==
    (MultiBandRan /\ Cardinality(RunBands) >= 2) =>
        /\ \A b \in RunBands :
              TestWarnings(b) = BoolToNat(is_dir(fs, <<S_tests>>) /\ ~HasTestFile(b))
        /\ NoTestFileError

\* Two bands under a tests/ directory: the first has a test file in its
\* own subdirectory and gets no warning, the second has none and gets one
C20_Witness ==
    /\ MultiBandRan
    /\ RunBands = {Child(PkgDir, BandName(1)), Child(PkgDir, BandName(2))}
    /\ exists(fs, <<S_tests, BandName(1), S_test_ \o S_pkg \o S_dot_py>>)
    /\ ~HasTestFile(Child(PkgDir, BandName(2)))
    /\ TestWarnings(Child(PkgDir, BandName(1))) = 0
    /\ TestWarnings(Child(PkgDir, BandName(2))) = 1


\* ------------------------------------------------------------------------
\* Claims about the discovery functions (SpecDiscovery)
\* ------------------------------------------------------------------------

BandsSought == discovery # Null /\ discovery.op = "find_band_dirs"
PdkSubdirsSought == discovery # Null /\ discovery.op = "get_pdk_subdirs"
CellFilesSought == discovery # Null /\ discovery.op = "find_cell_files"

\* The direct subdirectories of pkg that qualify as bands, read from the
\* repository
QualifyingBands(disk, pkg) ==
    {d \in disk.dirs :
        /\ Len(d) = Len(pkg) + 1
        /\ PathParent(d) = pkg
        /\ PathName(d)[1] \notin {".", "_"}
        /\ exists(disk, Child(d, S_init_py))
        /\ \/ Child(d, S_cells) \in disk.dirs
           \/ exists(disk, Child(d, S_cells_py))
           \/ exists(disk, Child(d, S_tech_py))}

\* A list of paths in strictly increasing order of name
InNameOrder(paths) ==
    \A i, j \in DOMAIN paths : i < j => StrLess(PathName(paths[i]), PathName(paths[j]))

OrderedByName(S) ==
    CHOOSE s \in [1..Cardinality(S) -> S] : Range(s) = S /\ InNameOrder(s)

\* The cell files of one base directory, read from the repository: the
\* *.py files of its cells/ directory other than __init__.py when there is
\* such a directory, else its cells.py when there is one
OwnCells(disk, base) ==
    IF Child(base, S_cells) \in disk.dirs
    THEN {p \in FilePaths(disk) : /\ Len(p) = Len(base) + 2
                                  /\ PathParent(p) = Child(base, S_cells)
                                  /\ endswith(PathName(p), S_dot_py)
                                  /\ PathName(p) # S_init_py}
    ELSE {p \in FilePaths(disk) : p = Child(base, S_cells_py)}

\* The root's cell files, then each band's, bands in order of name
ExpectedCellFiles(disk, pkg) ==
    LET bands == OrderedByName(QualifyingBands(disk, pkg))
        acc[i \in 0..Len(bands)] ==
            IF i = 0 THEN OrderedByName(OwnCells(disk, pkg))
            ELSE acc[i - 1] \o OrderedByName(OwnCells(disk, bands[i]))
    IN acc[Len(bands)]

\* C22: find_cell_files(pkg) lists the root's cell files before any
\* band's, the bands in lexicographic order and the files of a cells
\* directory in lexicographic order; for the root and each band the *.py
\* files of its cells directory other than __init__.py when the directory
\* exists (a sibling cells.py is then ignored), else cells.py alone when it
\* exists; __init__.py is never listed.
C22_CellFilesOrder ==
    CellFilesSought =>
        /\ discovery.value = ExpectedCellFiles(fs, discovery.arg)
        /\ \A i \in DOMAIN discovery.value : PathName(discovery.value[i]) # S_init_py

\* The root has a cells directory with an __init__.py next to a cells.py,
\* and a band has a cells.py: the directory's file comes first, the band's
\* cells.py after it, and the root's cells.py is not listed
C22_Witness ==
    /\ CellFilesSought
    /\ discovery.arg = PkgDir
    /\ exists(fs, <<S_pkg, S_cells_py>>)
    /\ exists(fs, <<S_pkg, S_cells, S_init_py>>)
    /\ discovery.value[1] = <<S_pkg, S_cells, CellFileName(1)>>
    /\ discovery.value[Len(discovery.value)] = <<S_pkg, BandName(1), S_cells_py>>
    /\ <<S_pkg, S_cells_py>> \notin Range(discovery.value)


\* C29: find_cell_files(pkg) never returns the same path twice, whatever
\* the layout of the directory (a package whose cells directory itself
\* qualifies as a band included).
C29_CellFilesAreDistinct ==
    CellFilesSought =>
        \A i, j \in DOMAIN discovery.value :
           discovery.value[i] = discovery.value[j] => i = j


\* ------------------------------------------------------------------------
\* Claims about the layer listing (SpecHooks)
\* ------------------------------------------------------------------------

TechStructureRan ==
    HookRan /\ run.hook = "check_tech_structure" /\ find_package_dir(fs) # None

\* The layer listing file of a directory: layers.yaml, else layers.yml
ListingOf(dir) ==
    IF exists(fs, Child(dir, S_layers_yaml)) THEN Child(dir, S_layers_yaml)
    ELSE Child(dir, S_layers_yml)

\* The directories of the run whose layer listing is checked: they hold
\* tech.py and a listing file
ListedDirs ==
    {d \in Range(get_pdk_subdirs(fs, RunPkgDir)) :
        /\ exists(fs, Child(d, S_tech_py))
        /\ exists(fs, ListingOf(d))}

\* The keys of the listing file of a directory
ListingNames(dir) ==
    LET lines == FileContent(fs, ListingOf(dir)).lines IN
    {YamlKey(lines[i])[1] : i \in {i \in DOMAIN lines : YamlKey(lines[i]) # None}}

\* The layer names declared in layers.py and tech.py of a directory
CodeNames(dir) ==
    CodeLayersOf(fs, Child(dir, S_layers_py)) \cup CodeLayersOf(fs, Child(dir, S_tech_py))

\* The warnings of the run of one kind about one directory
DriftWarnings(kind, dir) ==
    SelectSeq(run.result.warnings, LAMBDA m : m.kind = kind /\ m.path = dir)

NoDriftError ==
    \A i \in DOMAIN run.result.errors :
       run.result.errors[i].kind \notin {"layers in code but not in layers.yaml",
                                         "layers in layers.yaml but not in code"}

\* C23 as stated: where a listing file exists, one warning for the names
\* only in code whenever there are any, one warning for the names only in
\* the listing whenever there are any, also when the code declares no
\* layer name at all; never an error.
C23_DriftWarnedInEachDirection ==
    TechStructureRan =>
        /\ \A d \in ListedDirs :
              /\ Len(DriftWarnings("layers in code but not in layers.yaml", d))
                    = BoolToNat(CodeNames(d) \ ListingNames(d) # {})
              /\ Len(DriftWarnings("layers in layers.yaml but not in code", d))
                    = BoolToNat(ListingNames(d) \ CodeNames(d) # {})
        /\ NoDriftError

\* C23 amended: where a listing file exists and the code declares at
\* least one layer name, one warning listing the names only in code
\* whenever there are any and one warning listing the names only in the
\* listing whenever there are any; where the code declares no layer name,
\* no drift warning; never an error.
C23_DriftWarnedWhenCodeDeclaresLayers ==
    TechStructureRan =>
        /\ \A d \in ListedDirs :
              LET in_code == DriftWarnings("layers in code but not in layers.yaml", d)
                  in_yaml == DriftWarnings("layers in layers.yaml but not in code", d)
                  only_code == CodeNames(d) \ ListingNames(d)
                  only_yaml == ListingNames(d) \ CodeNames(d)
              IN /\ Len(in_code) = BoolToNat(CodeNames(d) # {} /\ only_code # {})
                 /\ Len(in_yaml) = BoolToNat(CodeNames(d) # {} /\ only_yaml # {})
                 /\ \A i \in DOMAIN in_code : Range(in_code[i].names) = only_code
                 /\ \A i \in DOMAIN in_yaml : Range(in_yaml[i].names) = only_yaml
        /\ NoDriftError

\* A directory whose code and listing each hold a name the other lacks
\* got one warning in each direction
C23_Witness ==
    /\ TechStructureRan
    /\ \E d \in ListedDirs :
          /\ CodeNames(d) \ ListingNames(d) # {}
          /\ ListingNames(d) \ CodeNames(d) # {}
          /\ Len(DriftWarnings("layers in code but not in layers.yaml", d)) = 1
          /\ Len(DriftWarnings("layers in layers.yaml but not in code", d)) = 1


\* ------------------------------------------------------------------------
\* Claims about push_compliance (SpecSync)
\* ------------------------------------------------------------------------

\* The commands run for the repository at position i, in order
StepsOf(i) == SelectSeq(sync.log, LAMBDA e : e.pdk = i)

\* The step of the claim's list a command belongs to: clone, template
\* sync, pre-commit run, branch/commit, push, pull-request lookup/creation
StepRank(step) ==
    CASE step = "clone" -> 1
      [] step = "sync_templates" -> 2
      [] step = "run_precommit" -> 3
      [] step \in {"checkout", "add", "diff", "commit"} -> 4
      [] step = "push" -> 5
      [] step \in {"pr_list", "pr_create"} -> 6

\* A command succeeded: it exited with 0, the template sync changed
\* files, the staged diff is not empty, the lookup found no PR
Succeeded(e) == e.outcome \in {"ok", "changed", "staged", "none"}

\* A command after which sync_pdk goes on: one that succeeded, the
\* pre-commit run whatever its outcome, and a PR lookup that printed no
\* PR number
GoesOn(e) ==
    \/ Succeeded(e)
    \/ e.step = "run_precommit"
    \/ e.step = "pr_list" /\ e.outcome = "failed"

\* The commands of each repository are the first ones of sync_pdk, in its
\* order
InSyncOrder ==
    \A i \in 1..sync.pdks :
       \A k \in DOMAIN StepsOf(i) : StepsOf(i)[k].step = SyncSteps[k]

\* With dry_run nothing after the template sync, with no_pr nothing after
\* the pre-commit run
FlagsCutShort ==
    \A k \in DOMAIN sync.log :
       /\ sync.dry_run => StepRank(sync.log[k].step) <= 2
       /\ sync.no_pr => StepRank(sync.log[k].step) <= 3

\* C24 as stated: the steps of a repository occur only in the order
\* clone, template sync, pre-commit run, branch/commit, push, PR
\* lookup/creation, each only if every earlier step occurred and succeeded
\* (push only after a non-empty staged diff, PR creation only when no PR
\* exists); with dry_run nothing after the template sync, with no_pr
\* nothing after the pre-commit run.
C24_StepsOnlyAfterSuccess ==
    sync # Null =>
        /\ InSyncOrder
        /\ \A i \in 1..sync.pdks :
              \A k \in DOMAIN StepsOf(i) :
                 \A j \in 1..(k - 1) : Succeeded(StepsOf(i)[j])
        /\ FlagsCutShort

\* C24 amended: the same order, each step only if every earlier step
\* occurred and, the pre-commit run apart, succeeded: the pre-commit run is
\* best-effort and whatever its outcome the later steps occur; push only
\* after a non-empty staged diff; PR creation only when the lookup printed
\* no PR number (there is none, or the lookup failed); the flags cut the
\* steps short as stated.
C24_StepsOnlyAfterSuccessButPrecommit ==
    sync # Null =>
        /\ InSyncOrder
        /\ \A i \in 1..sync.pdks :
              \A k \in DOMAIN StepsOf(i) :
                 \A j \in 1..(k - 1) : GoesOn(StepsOf(i)[j])
        /\ FlagsCutShort

\* A repository went through every step, its pre-commit hooks failing,
\* up to a created pull request
C24_Witness ==
    /\ sync # Null
    /\ sync.pdks >= 1
    /\ Len(StepsOf(1)) = Len(SyncSteps)
    /\ StepsOf(1)[3].outcome = "failed"
    /\ StepsOf(1)[10].outcome = "ok"

\* Every repository of the list has been handled: its clone was run, and
\* the clones were run in list order
AllProcessedInOrder ==
    LET clones == SelectSeq(sync.log, LAMBDA e : e.step = "clone")
    IN /\ Len(clones) = sync.pdks
       /\ \A i \in DOMAIN clones : clones[i].pdk = i

\* C30: main handles every repository of the list in list order, a
\* failure while handling one (clone, branch creation, commit, push or PR
\* creation) does not keep the remaining ones from being handled, and
\* main returns 0: no failure ends main by an exception, and when main has
\* returned every repository was handled and the code is 0.
C30_FailureDoesNotStopTheLoop ==
    sync # Null =>
        /\ sync.pc # "raised"
        /\ sync.pc = "done" => AllProcessedInOrder /\ sync.rc = Some(0)


\* The tuple is a statement of the body of a function defined in a class
SrcInMethodBody ==
    /\ cell_src.head = "Expr"
    /\ Len(cell_src.stmts) >= 2
    /\ cell_src.stmts[Len(cell_src.stmts)] = "FunctionDef"
    /\ \E i \in 1..(Len(cell_src.stmts) - 1) : cell_src.stmts[i] = "ClassDef"

\* The traversal is about to visit the tuple under test
AtLeaf ==
    /\ finder # FinderIdle
    /\ finder.stack # <<>>
    /\ Head(finder.stack) = VisitTask(cell_src.leaf)

\* C25: the context values are reset on entering a new scope: while the
\* body of a function nested in a class is visited the class-body flag and
\* the default flag are false, so a qualifying tuple of that body is
\* decided like one of a top-level function (flagged when the keyword
\* context bears a layer or is None).
C25_MethodBodyResetsContext ==
    /\ (AtLeaf /\ SrcInMethodBody) => ~finder.in_class_body /\ ~finder.in_default
    /\ (FinderDone /\ SrcInMethodBody /\ SrcVisited /\ cell_src.leaf = LayerTuple2)
          => (LeafFindings = 1 <=> _is_layer_context(LastKw(cell_src.exprs)))


\* The pending `self._kwarg_name = old` assignments of the keyword loops
\* the traversal is in, the innermost first
PendingRestores == SelectSeq(finder.stack, LAMBDA t : t.op = "restore_kwarg")

\* The keywords of the calls written around the tuple under test, the
\* outermost first
SrcKeywords ==
    LET kws == SelectSeq(cell_src.exprs, LAMBDA w : w.w = "kw")
    IN [i \in DOMAIN kws |-> kws[i].arg]

\* The traversal is about to visit a statement
AtStatement ==
    /\ finder.stack # <<>>
    /\ Head(finder.stack).op = "visit"
    /\ Head(finder.stack).node.type
          \in {"Expr", "FunctionDef", "AsyncFunctionDef", "ClassDef"}

\* C26: visit_Call puts the keyword context back after each keyword value.
\* The value each pending keyword iteration will restore is the value on
\* entry of its call (None for the outermost call, the enclosing keyword
\* for a call written in a keyword value), and the context is the keyword
\* being visited; with no keyword value being visited, that is on return
\* from the outermost call and at every statement, it is None; at the end
\* of the traversal the three context values are the initial ones.
C26_KeywordContextRestored ==
    finder # FinderIdle =>
        LET n == Len(PendingRestores) IN
        /\ n <= Len(SrcKeywords)
        /\ \A i \in 1..n :
              PendingRestores[i].old = (IF i = n THEN None ELSE SrcKeywords[n - i])
        /\ n = 0 => finder.kwarg_name = None
        /\ n > 0 => finder.kwarg_name \in {SrcKeywords[n], Some(S_length)}
        /\ AtStatement => finder.kwarg_name = None
        /\ FinderDone => /\ finder.kwarg_name = None
                         /\ ~finder.in_default
                         /\ ~finder.in_class_body

\* make(length=10, layer=make(length=10, size=(1, 0))) followed by (9, 9),
\* walked to the end: the later statement was decided with no keyword
\* context
C26_Witness ==
    /\ FinderDone
    /\ cell_src.head = "Expr"
    /\ SrcKeywords = <<Some(S_layer), Some(S_size)>>
    /\ cell_src.leaf = LayerTuple2
    /\ LeafFindings = 0
    /\ TrailerFindings = 1
    /\ finder.kwarg_name = None


\* ------------------------------------------------------------------------
\* Claims about the callee of a Pdk constructor call (SpecPdkCall)
\* ------------------------------------------------------------------------

\* The callees that name the Pdk constructor: the bare name Pdk, an imported
\* bare name whose import path contains Pdk, an attribute access .Pdk.
NamesPdk(func_node) ==
    \/ /\ func_node.type = "Name"
       /\ \/ func_node.id = S_Pdk
          \/ /\ func_node.id \in DOMAIN checker.aliases
             /\ contains(checker.aliases[func_node.id], S_Pdk)
    \/ /\ func_node.type = "Attribute"
       /\ func_node.attr = S_Pdk

\* The lines of the call statements whose callee names the Pdk constructor.
PdkCallLines ==
    {i \in DOMAIN pdk_tree.body :
        /\ pdk_tree.body[i].type = "Expr"
        /\ pdk_tree.body[i].value.type = "Call"
        /\ NamesPdk(pdk_tree.body[i].value.func)}

\* C27: a call is treated as the Pdk constructor only if its callee is
\* the bare name Pdk, an imported bare name whose import path names Pdk,
\* or an attribute access .Pdk; a call to any other bare name that was not
\* imported sets no found flag and produces no findings.
C27_OnlyPdkCalleesAreMatched ==
    PdkDone =>
        /\ checker.found_pdk_call => PdkCallLines # {}
        /\ \A j \in DOMAIN checker.result.errors :
              checker.result.errors[j].lineno \in PdkCallLines
        /\ \A j \in DOMAIN checker.result.warnings :
              checker.result.warnings[j].lineno \in PdkCallLines


\* ------------------------------------------------------------------------
\* Claims about the bands check_multi_band inspects (SpecHooks)
\* ------------------------------------------------------------------------

\* The directories check_multi_band has recorded an error about.
BandsWithErrors == {run.result.errors[j].path : j \in DOMAIN run.result.errors}

ErrorsAbout(band, kind) ==
    Count(run.result.errors, LAMBDA m : m.kind = kind /\ m.path = band)

\* C28: every directory check_multi_band inspects as a band holds
\* __init__.py and a cells module or tech.py: the 'missing __init__.py'
\* error is never recorded, has_init never differs between bands, and no
\* band is reported as missing both its cells module and tech.py.
C28_InspectedBandsQualify ==
    MultiBandRan =>
        /\ \A b \in BandsWithErrors :
              /\ exists(fs, Child(b, S_init_py))
              /\ ~LacksCells(b) \/ ~LacksTech(b)
              /\ ErrorsAbout(b, "missing __init__.py") = 0
              /\ ErrorsAbout(b, "missing cells module (cells/ or cells.py)")
                    + ErrorsAbout(b, "missing tech.py") = 1
        /\ \A j \in DOMAIN run.result.warnings :
              run.result.warnings[j].kind = "Inconsistency"
                  => run.result.warnings[j].key # "has_init"

\* C28 witness: of two bands, b1 has a cells/ directory and no tech.py, b2
\* has tech.py and no cells module; each gets its one error.
C28_Witness ==
    /\ MultiBandRan
    /\ LET b1 == Child(PkgDir, BandName(1))
           b2 == Child(PkgDir, BandName(2))
       IN /\ is_dir(fs, Child(b1, S_cells)) /\ LacksTech(b1)
          /\ LacksCells(b2) /\ ~LacksTech(b2)
          /\ run.result.errors
                = <<[kind |-> "missing tech.py", path |-> b1],
                    [kind |-> "missing cells module (cells/ or cells.py)", path |-> b2]>>
    /\ run.rc = 1

====
